---------------------------- MODULE Spec2Model ----------------------------
(***************************************************************************)
(* Model of the artifact-management layer of imcode:                       *)
(*   - AICodeProvider (src/src/contexts/AICodeContext.tsx, lines 320-899): *)
(*     the file Store, the duplicate/unique-name helpers, the debounced    *)
(*     save effects and the localStorage persistence;                      *)
(*   - ChatInterface (src/src/components/ChatInterface.tsx, lines 21-430): *)
(*     the send / reply flow that turns a model reply into Store calls;    *)
(*   - CodeEditor (src/src/components/CodeEditor.tsx, lines 362-779): the  *)
(*     editor's delete / select / edit callbacks.                          *)
(*                                                                         *)
(* Strings are TLA+ strings handled character by character (SubSeq, Len,   *)
(* \o), so that toLowerCase, trim, includes, endsWith and the regular      *)
(* expressions of the source are computed, not assumed.                    *)
(*                                                                         *)
(* React closures: a callback created in a render sees the `files`,        *)
(* `selectedFileId` and `currentProject` of that render.  The operators    *)
(* below take that captured value as the parameter `snap`, next to the     *)
(* current state that the functional updates (setFiles(prev => ...)) act   *)
(* on.                                                                     *)
(***************************************************************************)
EXTENDS Integers, Sequences, FiniteSets, TLC

-----------------------------------------------------------------------------
(* Bounds of the model *)

\* user-level operations (Store calls, editor actions, messages, reloads)
\* in one run; timeouts firing and replies arriving are not counted
MaxOps == 3

\* longest file list the Store is given to start from when its lookups are
\* exercised on their own
MaxFiles == 2

\* calls of editFileByName in a row
MaxEdits == 1

-----------------------------------------------------------------------------
(* JavaScript string primitives *)

\* s.charAt(i - 1): '' outside the string
CharAt(s, i) == IF 1 <= i /\ i <= Len(s) THEN SubSeq(s, i, i) ELSE ""

\* s.substring(m - 1, n), clamped to the string as in JavaScript
Substring(s, m, n) ==
  SubSeq(s, IF m < 1 THEN 1 ELSE m, IF n > Len(s) THEN Len(s) ELSE n)

UpperChars == "ABCDEFGHIJKLMNOPQRSTUVWXYZ"
LowerChars == "abcdefghijklmnopqrstuvwxyz"
DigitChars == "0123456789"

RECURSIVE IndexOfFrom(_, _, _)
\* String.prototype.indexOf(sub, from) with 1-based positions; 0 when absent
IndexOfFrom(s, sub, from) ==
  IF from + Len(sub) - 1 > Len(s) THEN 0
  ELSE IF SubSeq(s, from, from + Len(sub) - 1) = sub THEN from
  ELSE IndexOfFrom(s, sub, from + 1)

IndexOf(s, sub) == IndexOfFrom(s, sub, 1)

Includes(s, sub) == IndexOf(s, sub) # 0

StartsWith(s, sub) ==
  Len(sub) <= Len(s) /\ SubSeq(s, 1, Len(sub)) = sub

EndsWith(s, sub) ==
  Len(sub) <= Len(s) /\ SubSeq(s, Len(s) - Len(sub) + 1, Len(s)) = sub

UpperSet == {CharAt(UpperChars, i) : i \in 1..Len(UpperChars)}

\* the lower-case letter of each upper-case letter
LowerMapping ==
  [c \in UpperSet |-> CharAt(LowerChars, IndexOf(UpperChars, c))]

LowerChar(c) == IF c \in UpperSet THEN LowerMapping[c] ELSE c

RECURSIVE LowerCased(_)
\* s.toLowerCase(), character by character
LowerCased(s) ==
  IF s = "" THEN "" ELSE LowerChar(CharAt(s, 1)) \o LowerCased(Tail(s))

\* the paths the inputs name, the versioned paths derived from them and
\* their base names
CommonPaths ==
  { "contracts/tokens/Token.move", "contracts/tokens/token.move",
    "Token.move", "README.md", "Missing.move",
    "contracts/tokens/Token_v2.move", "contracts/tokens/Token_v3.move",
    "contracts/tokens/Token", "contracts/tokens/Token_v2",
    "contracts/tokens/Token_v3",
    "a/Token.move", "b/token.move", "Token_v2.move", "Token_v3.move",
    "token.move", "token_v2.move", "token_v3.move", "a/Token_v2.move",
    "README_v2.md", "Makefile", "x/token.md", "oken", "atokenmove",
    "Token", "token", "Token_v2", "Missing", "README" }

\* LowerCased computed once for the common paths
LowerCaseOf == [s \in CommonPaths |-> LowerCased(s)]

\* String.prototype.toLowerCase
ToLowerCase(s) == IF s \in CommonPaths THEN LowerCaseOf[s] ELSE LowerCased(s)

IsSpace(c) == c \in {" ", "\n", "\t", "\r"}

RECURSIVE TrimStart(_)
TrimStart(s) ==
  IF s # "" /\ IsSpace(CharAt(s, 1)) THEN TrimStart(Tail(s)) ELSE s

RECURSIVE TrimEnd(_)
TrimEnd(s) ==
  IF s # "" /\ IsSpace(CharAt(s, Len(s)))
  THEN TrimEnd(SubSeq(s, 1, Len(s) - 1)) ELSE s

Trim(s) == TrimEnd(TrimStart(s))

RECURSIVE LastIndexOfFrom(_, _, _)
\* last position of the one-character string c in s at or before from
LastIndexOfFrom(s, c, from) ==
  IF from < 1 THEN 0
  ELSE IF CharAt(s, from) = c THEN from
  ELSE LastIndexOfFrom(s, c, from - 1)

LastIndexOf(s, c) == LastIndexOfFrom(s, c, Len(s))

\* position where the regular expression /\.[^/.]+$/ matches in s, 0 if none:
\* the last "." of s, followed by at least one character, none of them "/"
ExtensionStart(s) ==
  LET d == LastIndexOf(s, ".")
  IN IF d = 0 \/ d = Len(s) THEN 0
     ELSE IF LastIndexOf(s, "/") > d THEN 0
     ELSE d

\* s.replace(/\.[^/.]+$/, "")
StripExtension(s) ==
  IF ExtensionStart(s) = 0 THEN s ELSE SubSeq(s, 1, ExtensionStart(s) - 1)

\* s.match(/\.[^/.]+$/)?.[0] || ''
ExtensionOf(s) ==
  IF ExtensionStart(s) = 0 THEN "" ELSE SubSeq(s, ExtensionStart(s), Len(s))

\* a TLA+ string cannot hold the backtick character; "^" stands for it
BackTick == "^"

\* the triple-backtick fence
Fence == BackTick \o BackTick \o BackTick

-----------------------------------------------------------------------------
(* Inputs *)

\* code bodies a model reply or a caller of the Store can carry
BodyA == "module imcode::token { struct Token has key { value: u64 } }"
BodyB == "module imcode::token { struct Token has key { supply: u128 } }"
\* 49 characters: one below the content threshold
Body49 == "module a { struct Token has key { value: u64 } }x"
\* 52 characters, 32 of them after trim()
BodyPadded == "          module a { struct T { v: u64 } }          "
\* long enough, but none of the keywords a .move file must contain
BodyNoKw == "fun transfer(from: address, to: address, amount: u64) { }"

ValidBodies == {BodyA, BodyB}
ShortBodies == {"", "short", Body49, BodyPadded}
Bodies == ValidBodies \cup ShortBodies \cup {BodyNoKw}

\* calls addFileFromAI(fileName, content) a consumer of the Store makes
TokenPath == "contracts/tokens/Token.move"
TokenPathLower == "contracts/tokens/token.move"
CreateCalls ==
  { <<TokenPath, BodyA>>, <<TokenPathLower, BodyB>>, <<"Token.move", BodyB>>,
    <<TokenPath, "">>, <<TokenPath, Body49>>, <<TokenPathLower, BodyPadded>> }

\* contents typed into the editor's text area
EditorContents == {"short"}

\* contents handed to editFileByName: a merge whose new body repeats an
\* import of the old body and has one import twice, an append, a prepend and
\* a plain replacement
EditMerge ==
  "// merge: use std::vector;\nuse std::coin;\nuse std::coin;\nmodule a::t { public fun f() { } }"
EditAppend == "// ADD: module a::extra { public fun g(): u64 { 1 } } // appended"
EditPrepend == "// prepend: module a::head { struct H has key { v: u64 } }"
EditContents == {EditMerge, EditAppend, EditPrepend, BodyB, "short"}

\* every content a Store call of the model is given
AllContents == Bodies \cup EditorContents \cup EditContents

\* contract bodies handed to the classifiers: one with governance and NFT
\* keywords, one with access-control and utility keywords, one with none
BodyGovNft == "module dao::gov { struct NFT has key { id: u64 } } // governance"
BodyAccessUtil == "module admin::acl { struct Role has key { helper: address } }"
BodyPlain == "module a::b { struct S has key { v: u64, w: u64, x: u64 } }"
\* a script body without any keyword of the script rules
BodyScript == "const run = async () => { await send(); return 0; }; run();"
ClassifierBodies == {BodyGovNft, BodyAccessUtil, BodyPlain, BodyA, BodyScript}

\* names handed to organizeFileIntoDirectory: one, two and three segments
ClassifierNames ==
  { "Governor.move", "contracts/Governor.move", "contracts/governance/Governor.move",
    "run.js", "scripts/run.js", "notes.md", "README.md", "data.bin" }

NoId == ""

\* a FileItem: id, name (the virtual path), content
File(id, name, content) == [id |-> id, name |-> name, content |-> content]

\* project histories handed to loadProject
SavedProjects ==
  { <<File("saved_1", "README.md", BodyA)>> }

\* messages typed by the user
Messages ==
  { "create a token contract like @Token.move",
    "edit Token.move to match @Missing.move and @Token.move",
    "fix Missing.move" }

\* messages that probe detectEditCommand: a verb of the fourth pattern, two
\* verbs of different patterns, a verb in upper case, and no verb at all
ProbeMessages ==
  { "improve Missing.move",
    "fix Token.move after you edit b/token.move",
    "please REFACTOR a/Token.move",
    "write a staking module" }

\* replies of the model
ReplyOneBlock ==
  "Here is the contract.\n" \o Fence \o "move\n" \o BodyA \o Fence \o "\nDone."
ReplyTwoBlocks ==
  Fence \o "move\n" \o BodyA \o Fence \o "\nand\n" \o Fence \o "\n" \o BodyB \o Fence
ReplyProse == "I cannot help with that."
\* a function on its own: a block tagged move without module, struct or
\* public fun
ReplyNoKeyword ==
  "Add this function:\n" \o Fence \o "move\n" \o BodyNoKw \o Fence

Replies == {ReplyOneBlock, ReplyTwoBlocks, ReplyProse, ReplyNoKeyword}

\* replies that probe the code block regex: a block of a few characters, a
\* block tagged rust next to an untagged one, a fence that is never closed,
\* and a tag that is not followed by a line break
ReplyShortBlock ==
  "Run this:\n" \o Fence \o "move\nlet x = 1;\n" \o Fence \o "\nThat is all."
ReplyRustThenPlain ==
  Fence \o "rust\n" \o BodyNoKw \o Fence \o "\nor\n" \o Fence \o "\n" \o BodyB \o Fence
ReplyUnclosed == "Start:\n" \o Fence \o "move\n" \o BodyA
ReplyInlineTag ==
  Fence \o "move " \o BodyA \o Fence \o "\n" \o BodyB \o Fence \o " end"
ProbeReplies == {ReplyShortBlock, ReplyRustThenPlain, ReplyUnclosed, ReplyInlineTag}

-----------------------------------------------------------------------------
(* Sequence helpers (Array.prototype) *)

\* a filter that keeps every entry
FilterKeepAll(fs, fileId) == fs

RECURSIVE FilterSeq(_, _)
\* files.filter(f => f.id !== fileId) for the predicate "id differs"
FilterSeq(fs, fileId) ==
  IF fs = <<>> THEN <<>>
  ELSE IF Head(fs).id # fileId
       THEN <<Head(fs)>> \o FilterSeq(Tail(fs), fileId)
       ELSE FilterSeq(Tail(fs), fileId)

\* files.some(f => f.id === id)
HasId(fs, id) == \E i \in 1..Len(fs) : fs[i].id = id

\* index of the first entry satisfying files.find(f => lower(f.name) = lower(name)), 0 if none
FirstIndexLower(fs, name) ==
  LET hits == {i \in 1..Len(fs) : ToLowerCase(fs[i].name) = ToLowerCase(name)}
  IN IF hits = {} THEN 0 ELSE CHOOSE i \in hits : \A j \in hits : i <= j

-----------------------------------------------------------------------------
(* The Store: AICodeProvider *)

VARIABLES
  files,            \* useState<FileItem[]>: the ordered file list
  selectedFileId,   \* useState<string>: '' when nothing is selected
  currentProject,   \* useState<ProjectData | null>
  localStorage,     \* the three keys the provider reads and writes
  timers,           \* pending setTimeout of each of the two save effects
  nextId,           \* freshness of Date.now() + Math.random() in new ids
  ops,              \* user-level operations so far
  activeView,       \* Index: the selected tab
  hasInteractedWithAI, \* Index: set by the first message sent
  isSending,        \* useState of the mounted ChatInterface
  messagesUsed,     \* the wallet profile's messages_used
  inflight,         \* model calls awaited by handleSendMessage
  savedMem,         \* the in-memory list and selection seen by the last save
  lastOp            \* the last operation and its arguments

vars == <<files, selectedFileId, currentProject, localStorage, timers,
          nextId, ops, activeView, hasInteractedWithAI, isSending,
          messagesUsed, inflight, savedMem, lastOp>>

storeVars == <<files, selectedFileId, currentProject, nextId, timers>>
chatVars == <<isSending, messagesUsed, inflight>>
viewVars == <<activeView, hasInteractedWithAI>>

\* currentProject is null or a ProjectData.  Its `files` field is overwritten
\* by the current `files` wherever the provider reads the project
\* (saveProjectToStorage, deleteFile), so only null / non-null is carried.
NoProject == [isNull |-> TRUE]
SomeProject == [isNull |-> FALSE]

Absent == [present |-> FALSE, value |-> ""]
AbsentFiles == [present |-> FALSE, value |-> <<>>]
Stored(v) == [present |-> TRUE, value |-> v]

\* the last operation, what it did, and the id it was about
Op(op, outcome, id) ==
  [op |-> op, outcome |-> outcome, id |-> id, blocks |-> <<>>]

\* content.trim().length < 50
MinContentLength == 50

\* the length test without trim()
TooShortUntrimmed(content) == Len(content) < MinContentLength

TooShort(content) == Len(Trim(content)) < MinContentLength

\* !content || content.trim().length < 50, tabulated over the contents
IsTooShort == [c \in AllContents |-> c = "" \/ TooShort(c)]

\* the keywords a .move file must show one of
HasMoveKeyword(content) ==
  \/ Includes(content, "module")
  \/ Includes(content, "struct")
  \/ Includes(content, "public fun")

HasMoveKeywordIn == [c \in AllContents |-> HasMoveKeyword(c)]

\* validateFileContent(content, fileName)
ValidateFileContent(content, fileName) ==
  IF IsTooShort[content] THEN FALSE
  ELSE IF EndsWith(fileName, ".move") /\ ~HasMoveKeywordIn[content] THEN FALSE
  ELSE TRUE

\* a lookup that never finds an entry
ExistingNone(snap, fileName) == 0

\* the lookup of addFileFromAI: files.find(f => f.name.toLowerCase() === fileName.toLowerCase())
ExistingFile(snap, fileName) == FirstIndexLower(snap, fileName)

\* an update that appends an entry when no entry has the id
UpdateOrCreate(prev, fileId, content) ==
  IF HasId(prev, fileId)
  THEN [i \in 1..Len(prev) |->
          IF prev[i].id = fileId THEN [prev[i] EXCEPT !.content = content]
          ELSE prev[i]]
  ELSE Append(prev, [id |-> fileId, name |-> fileId, content |-> content])

\* updateFile: setFiles(prev => prev.map(file => file.id === fileId ? {...file, content} : file))
UpdateFile(prev, fileId, content) ==
  [i \in 1..Len(prev) |->
     IF prev[i].id = fileId THEN [prev[i] EXCEPT !.content = content]
     ELSE prev[i]]

\* the id of a new entry; the name part and the time/random part of the
\* source are represented by a fresh number
NewId(n) == "file_" \o ToString(n)

\* the state the Store's callbacks transform
StoreState(fs, sel, proj, nid) ==
  [files |-> fs, selectedFileId |-> sel, currentProject |-> proj, nextId |-> nid]

\* addFileFromAI(fileName, content) run by a callback whose render saw `snap`
AddFileFromAI(snap, st, fileName, content) ==
  IF ~ValidateFileContent(content, fileName) THEN st
  ELSE IF ExistingFile(snap, fileName) # 0
  THEN LET existing == snap[ExistingFile(snap, fileName)]
       IN [st EXCEPT !.files = UpdateFile(st.files, existing.id, content),
                     !.selectedFileId = existing.id]
  ELSE LET newFile == File(NewId(st.nextId), fileName, content)
       IN StoreState(Append(st.files, newFile), newFile.id,
                     SomeProject, st.nextId + 1)

\* what a call addFileFromAI(fileName, content) against `snap` amounts to
AddOutcome(snap, fileName, content) ==
  IF IsTooShort[content] THEN "rejected-short"
  ELSE IF ~ValidateFileContent(content, fileName) THEN "rejected-keywords"
  ELSE IF ExistingFile(snap, fileName) # 0 THEN "updated"
  ELSE "created"

\* a delete that leaves the selection alone
SelectionKept(sel, fileId) == sel

\* the selection after deleteFile(fileId), decided on the render's selectedFileId
SelectionAfterDelete(sel, fileId) == IF sel = fileId THEN NoId ELSE sel

\* deleteFile(fileId) run by a callback whose render saw snap / sel / proj
DeleteFile(snap, st, fileId) ==
  [st EXCEPT !.files = FilterSeq(st.files, fileId),
             !.selectedFileId = SelectionAfterDelete(st.selectedFileId, fileId),
             !.currentProject =
                IF st.currentProject.isNull THEN st.currentProject
                ELSE SomeProject]

\* loadProject(project)
LoadProject(st, projectFiles) ==
  [st EXCEPT !.files = projectFiles,
             !.selectedFileId =
                IF Len(projectFiles) > 0 THEN projectFiles[1].id ELSE NoId,
             !.currentProject = SomeProject]

-----------------------------------------------------------------------------
(* Persistence: localStorage *)

EmptyStorage ==
  [project |-> AbsentFiles, selected |-> Absent, backup |-> AbsentFiles]

\* saveProjectToStorage: the three setItem calls
SaveProjectToStorage(fs, sel) ==
  [project |-> Stored(fs), selected |-> Stored(sel), backup |-> Stored(fs)]

\* createNewProject: the two removeItem calls
RemoveProjectKeys(ls) ==
  [ls EXCEPT !.project = AbsentFiles, !.selected = Absent]

\* the storage after the first k setItem calls of saveProjectToStorage
PartialSave(ls, fs, sel, k) ==
  [project |-> IF k >= 1 THEN Stored(fs) ELSE ls.project,
   selected |-> IF k >= 2 THEN Stored(sel) ELSE ls.selected,
   backup |-> IF k >= 3 THEN Stored(fs) ELSE ls.backup]

\* the storage after the first k removeItem calls of createNewProject
PartialRemove(ls, k) ==
  [project |-> IF k >= 1 THEN AbsentFiles ELSE ls.project,
   selected |-> IF k >= 2 THEN Absent ELSE ls.selected,
   backup |-> ls.backup]

\* a load that always selects the first restored entry
RestoredFirst(ls, fs, cur) == IF Len(fs) > 0 THEN fs[1].id ELSE cur

\* the selection loadProjectFromStorage sets for a restored list; cur is the
\* selection left alone when neither branch assigns
RestoredSelection(ls, fs, cur) ==
  IF ls.selected.present /\ ls.selected.value # "" /\ HasId(fs, ls.selected.value)
  THEN ls.selected.value
  ELSE IF Len(fs) > 0 THEN fs[1].id ELSE cur

\* a load that prefers the bare file list to the envelope
LoadBackupFirst(ls, st) ==
  IF ls.backup.present
  THEN [st EXCEPT !.files = ls.backup.value,
                  !.selectedFileId =
                     RestoredSelection(ls, ls.backup.value, st.selectedFileId)]
  ELSE IF ls.project.present
  THEN [st EXCEPT !.currentProject = SomeProject,
                  !.files = ls.project.value,
                  !.selectedFileId =
                     RestoredSelection(ls, ls.project.value, st.selectedFileId)]
  ELSE st

\* loadProjectFromStorage run on the state st
LoadProjectFromStorage(ls, st) ==
  IF ls.project.present
  THEN [st EXCEPT !.currentProject = SomeProject,
                  !.files = IF Len(ls.project.value) > 0
                            THEN ls.project.value ELSE st.files,
                  !.selectedFileId =
                     RestoredSelection(ls, ls.project.value, st.selectedFileId)]
  ELSE IF ls.backup.present
  THEN [st EXCEPT !.files = ls.backup.value,
                  !.selectedFileId =
                     RestoredSelection(ls, ls.backup.value, st.selectedFileId)]
  ELSE st

\* the first save effect schedules a timeout when files.length > 0
FilesTimerArmed(fs) == Len(fs) > 0

\* the second save effect schedules one when selectedFileId && files.length > 0
SelectionTimerArmed(fs, sel) == sel # "" /\ Len(fs) > 0

\* both effects after a render in which files, selectedFileId or
\* currentProject changed: the cleanup clears the old timeout, the body
\* schedules a new one when its condition holds
RunSaveEffects(fs, sel) ==
  [files |-> FilesTimerArmed(fs), selection |-> SelectionTimerArmed(fs, sel)]

-----------------------------------------------------------------------------
(* Identity and uniqueness: getUniqueFileName, preventDuplicateFiles,      *)
(* findFileByName                                                          *)

\* files.map(f => f.name.toLowerCase())
ExistingNames(snap) == {ToLowerCase(snap[i].name) : i \in 1..Len(snap)}

\* the path up to and including its last "/", '' when there is none
PathPrefix(fileName) == SubSeq(fileName, 1, LastIndexOf(fileName, "/"))

\* pathParts.pop() || fileName
FileNamePart(fileName) ==
  LET last == SubSeq(fileName, LastIndexOf(fileName, "/") + 1, Len(fileName))
  IN IF last = "" THEN fileName ELSE last

\* a candidate with a bare number for a suffix
VersionedPlain(prefix, base, ext, counter) ==
  prefix \o base \o (IF counter > 1 THEN "_" \o ToString(counter) ELSE "") \o ext

\* the candidate the while loop of getUniqueFileName tests for `counter`
VersionedName(prefix, base, ext, counter) ==
  prefix \o base \o (IF counter > 1 THEN "_v" \o ToString(counter) ELSE "") \o ext

RECURSIVE UniqueNameLoop(_, _, _, _, _, _)
\* while (existingNames.includes(candidate(counter))) { counter++; uniqueName = ... }
UniqueNameLoop(existing, prefix, base, ext, counter, uniqueName) ==
  IF ToLowerCase(VersionedName(prefix, base, ext, counter)) \in existing
  THEN UniqueNameLoop(existing, prefix, base, ext, counter + 1,
                      prefix \o base \o "_v" \o ToString(counter + 1) \o ext)
  ELSE uniqueName

\* a resolver that returns every proposal as it is
UniqueNameUnchecked(snap, fileName) == fileName

\* getUniqueFileName(fileName) of a render that saw `snap`
GetUniqueFileName(snap, fileName) ==
  IF ToLowerCase(fileName) \notin ExistingNames(snap) THEN fileName
  ELSE UniqueNameLoop(ExistingNames(snap), PathPrefix(fileName),
                      StripExtension(FileNamePart(fileName)),
                      ExtensionOf(FileNamePart(fileName)), 1, fileName)

\* preventDuplicateFiles(fileName) of a render that saw `snap`
PreventDuplicateFiles(snap, fileName) ==
  \/ ToLowerCase(fileName) \in ExistingNames(snap)
  \/ \E existingName \in ExistingNames(snap) :
       /\ StripExtension(existingName) = ToLowerCase(StripExtension(fileName))
       /\ ExtensionOf(existingName) = ExtensionOf(fileName)

\* a find that stops at the last entry satisfying its predicate
LastIndex(hits) ==
  IF hits = {} THEN 0 ELSE CHOOSE i \in hits : \A j \in hits : i >= j

\* the index files.find(...) stops at, given the indexes that satisfy its
\* predicate: the smallest, 0 for undefined
FirstIndex(hits) ==
  IF hits = {} THEN 0 ELSE CHOOSE i \in hits : \A j \in hits : i <= j

\* name.split('/').pop()?.replace(/\.[^/.]+$/, "") || name
BaseNameOf(name) ==
  LET b == StripExtension(SubSeq(name, LastIndexOf(name, "/") + 1, Len(name)))
  IN IF b = "" THEN name ELSE b

RECURSIVE RemoveSeparators(_)
\* s.replace(/[_\-\.\/]/g, '')
RemoveSeparators(s) ==
  IF s = "" THEN ""
  ELSE IF CharAt(s, 1) \in {"_", "-", ".", "/"} THEN RemoveSeparators(Tail(s))
  ELSE CharAt(s, 1) \o RemoveSeparators(Tail(s))

\* fileName.startsWith('@') ? fileName.substring(1) : fileName
CleanFileName(fileName) ==
  IF StartsWith(fileName, "@") THEN Tail(fileName) ELSE fileName

\* the indexes of fs that satisfy the predicate of strategy k of
\* findFileByName, k = 1 (exact) .. 6 (fuzzy)
StrategyHits(fs, fileName, k) ==
  LET clean == CleanFileName(fileName)
  IN {i \in 1..Len(fs) :
        CASE k = 1 -> fs[i].name = clean
          [] k = 2 -> ToLowerCase(fs[i].name) = ToLowerCase(clean)
          [] k = 3 -> EndsWith(fs[i].name, clean)
          [] k = 4 -> Includes(fs[i].name, clean)
          [] k = 5 -> ToLowerCase(BaseNameOf(fs[i].name))
                        = ToLowerCase(BaseNameOf(clean))
          [] k = 6 -> RemoveSeparators(ToLowerCase(fs[i].name))
                        = RemoveSeparators(ToLowerCase(clean))}

\* a lookup that knows the base name strategy only
FindFileByBaseName(fs, fileName) == FirstIndex(StrategyHits(fs, fileName, 5))

\* findFileByName(fileName) of a render that saw `fs`: the index of the entry
\* returned, 0 for undefined
FindFileByName(fs, fileName) ==
  LET clean == CleanFileName(fileName)
      Exact == {i \in 1..Len(fs) : fs[i].name = clean}
      NoCase == {i \in 1..Len(fs) :
                   ToLowerCase(fs[i].name) = ToLowerCase(clean)}
      Suffix == {i \in 1..Len(fs) : EndsWith(fs[i].name, clean)}
      Contains == {i \in 1..Len(fs) : Includes(fs[i].name, clean)}
      Base == {i \in 1..Len(fs) :
                 ToLowerCase(BaseNameOf(fs[i].name))
                   = ToLowerCase(BaseNameOf(clean))}
      Fuzzy == {i \in 1..Len(fs) :
                  RemoveSeparators(ToLowerCase(fs[i].name))
                    = RemoveSeparators(ToLowerCase(clean))}
  IN IF Exact # {} THEN FirstIndex(Exact)
     ELSE IF NoCase # {} THEN FirstIndex(NoCase)
     ELSE IF Suffix # {} THEN FirstIndex(Suffix)
     ELSE IF Contains # {} THEN FirstIndex(Contains)
     ELSE IF Base # {} THEN FirstIndex(Base)
     ELSE FirstIndex(Fuzzy)

-----------------------------------------------------------------------------
(* Code block extraction: extractCodeFromResponse *)

WordSet ==
  {CharAt(UpperChars, i) : i \in 1..Len(UpperChars)}
    \cup {CharAt(LowerChars, i) : i \in 1..Len(LowerChars)}
    \cup {CharAt(DigitChars, i) : i \in 1..Len(DigitChars)}
    \cup {"_"}

RECURSIVE WordRunEnd(_, _)
\* the first position at or after i that does not hold a \w character
WordRunEnd(s, i) ==
  IF i <= Len(s) /\ CharAt(s, i) \in WordSet THEN WordRunEnd(s, i + 1) ELSE i

CodeBlock(language, code) == [language |-> language, code |-> code]

\* the two "continue" conditions of the extraction loop
RejectedBlock(language, code) ==
  \/ ToLowerCase(language) = "rust"
  \/ ToLowerCase(language) = "rs"
  \/ code = ""
  \/ TooShort(code)

RECURSIVE ExtractFrom(_, _)
\* the exec loop of /FENCE(\w+)?\n([\s\S]*?)FENCE/g from position "from"
ExtractFrom(response, from) ==
  LET open == IndexOfFrom(response, Fence, from)
      tagEnd == WordRunEnd(response, open + 3)
      close == IndexOfFrom(response, Fence, tagEnd + 1)
      tag == SubSeq(response, open + 3, tagEnd - 1)
      language == IF tag = "" THEN "move" ELSE tag
      code == SubSeq(response, tagEnd + 1, close - 1)
  IN IF open = 0 THEN <<>>
     ELSE IF CharAt(response, tagEnd) # "\n" THEN ExtractFrom(response, open + 1)
     ELSE IF close = 0 THEN <<>>
     ELSE IF RejectedBlock(language, code) THEN ExtractFrom(response, close + 3)
     ELSE <<CodeBlock(language, code)>> \o ExtractFrom(response, close + 3)

\* an extractor that stops after the first block
ExtractFirstBlock(response) ==
  IF ExtractFrom(response, 1) = <<>> THEN <<>>
  ELSE <<Head(ExtractFrom(response, 1))>>

\* extractCodeFromResponse(response)
ExtractCodeFromResponse(response) == ExtractFrom(response, 1)

\* what extractCodeFromResponse returns for each reply
CodeBlocksOf == [r \in Replies \cup ProbeReplies |-> ExtractCodeFromResponse(r)]

RECURSIVE RemoveFrom(_, _)
\* text.replace(/FENCE(\w+)?\n[\s\S]*?FENCE/g, '') from position `from`
RemoveFrom(text, from) ==
  LET open == IndexOfFrom(text, Fence, from)
      tagEnd == WordRunEnd(text, open + 3)
      close == IndexOfFrom(text, Fence, tagEnd + 1)
  IN IF open = 0 THEN SubSeq(text, from, Len(text))
     ELSE IF CharAt(text, tagEnd) # "\n"
       THEN SubSeq(text, from, open) \o RemoveFrom(text, open + 1)
     ELSE IF close = 0 THEN SubSeq(text, from, Len(text))
     ELSE SubSeq(text, from, open - 1) \o RemoveFrom(text, close + 3)

\* removeCodeBlocksFromText(text)
RemoveCodeBlocksFromText(text) == Trim(RemoveFrom(text, 1))

RECURSIVE MatchesFrom(_, _)
\* the regions /FENCE(\w+)?\n[\s\S]*?FENCE/g matches from position `from`,
\* which replace() removes: the tag ("move" when it is absent) and the body
MatchesFrom(text, from) ==
  LET open == IndexOfFrom(text, Fence, from)
      tagEnd == WordRunEnd(text, open + 3)
      close == IndexOfFrom(text, Fence, tagEnd + 1)
      tag == SubSeq(text, open + 3, tagEnd - 1)
  IN IF open = 0 THEN <<>>
     ELSE IF CharAt(text, tagEnd) # "\n" THEN MatchesFrom(text, open + 1)
     ELSE IF close = 0 THEN <<>>
     ELSE <<CodeBlock(IF tag = "" THEN "move" ELSE tag,
                      SubSeq(text, tagEnd + 1, close - 1))>>
            \o MatchesFrom(text, close + 3)

\* the regions removeCodeBlocksFromText removes from each reply
RemovedRegionsOf ==
  [r \in Replies \cup ProbeReplies |-> MatchesFrom(r, 1)]

\* what removeCodeBlocksFromText returns for each reply
CleanResponseOf ==
  [r \in Replies \cup ProbeReplies |-> RemoveCodeBlocksFromText(r)]

-----------------------------------------------------------------------------
(* Naming of a code block: generateFileName *)

\* no file name: the null that generateFileName returns
NoName == ""

\* the path generateFileName proposes for block `index` of a reply, before
\* it is handed to getUniqueFileName; NoName where the source returns null
ProposedName(code, language, index) ==
  LET lowerCode == ToLowerCase(code)
      Has(kw) == Includes(lowerCode, kw)
      n == ToString(index + 1)
      isMove == language = "move"
  IN IF ToLowerCase(language) = "rust" \/ ToLowerCase(language) = "rs" THEN NoName
     ELSE IF code = "" \/ TooShort(code) THEN NoName
     ELSE IF Includes(code, "module.exports") /\ Has("hardhat")
       THEN "config/hardhat.config.js"
     ELSE IF Has("hardhat run") /\ Has("deploy")
       THEN "scripts/deployment/deploy_main.js"
     ELSE IF Includes(code, "\"scripts\"") /\ Includes(code, "\"hardhat\"")
       THEN "package.json"
     ELSE IF Includes(code, "[dependencies]") \/ Includes(code, "[package]")
       THEN "config/Move.toml"
     ELSE IF isMove \/ Has("module") THEN
       IF Has("core") \/ Has("main") THEN "contracts/core/CoreProtocol.move"
       ELSE IF Has("struct token") \/ Has("token_") THEN
         IF Has("erc20") \/ Has("fungible")
           THEN "contracts/tokens/fungible/FungibleToken.move"
         ELSE IF Has("staking") \/ Has("stake")
           THEN "contracts/tokens/TokenStaking.move"
         ELSE IF Has("reward") \/ Has("incentive")
           THEN "contracts/tokens/RewardToken.move"
         ELSE "contracts/tokens/Token.move"
       ELSE IF Has("struct nft") \/ Has("nft_") THEN
         IF Has("marketplace") THEN "contracts/nft/marketplace/NFTMarketplace.move"
         ELSE IF Has("collection") THEN "contracts/nft/collections/NFTCollection.move"
         ELSE "contracts/nft/NFTCore.move"
       ELSE IF Has("liquidity") \/ Has("pool") \/ Has("defi") THEN
         IF Has("liquidity") THEN "contracts/defi/liquidity/LiquidityPool.move"
         ELSE IF Has("swap") \/ Has("exchange")
           THEN "contracts/defi/exchange/SwapEngine.move"
         ELSE IF Has("lending") \/ Has("borrow")
           THEN "contracts/defi/lending/LendingProtocol.move"
         ELSE IF Has("farm") \/ Has("yield")
           THEN "contracts/defi/farming/YieldFarm.move"
         ELSE "contracts/defi/DeFiCore.move"
       ELSE IF Has("governance") \/ Has("dao") \/ Has("proposal") THEN
         IF Has("voting") THEN "contracts/governance/VotingMechanism.move"
         ELSE IF Has("treasury") THEN "contracts/governance/Treasury.move"
         ELSE "contracts/governance/DAO.move"
       ELSE IF Has("access") \/ Has("role") \/ Has("permission")
         THEN "contracts/access/AccessControl.move"
       ELSE IF Has("util") \/ Has("helper") \/ Has("library")
         THEN "contracts/utils/Utilities.move"
       ELSE "contracts/core/Contract_" \o n \o ".move"
     ELSE IF Has("test") \/ Has("#[test]") \/ language = "test" THEN
       IF Has("integration")
         THEN "tests/integration/integration_test_" \o n \o "."
                \o (IF isMove THEN "move" ELSE "js")
       ELSE "tests/unit/unit_test_" \o n \o "." \o (IF isMove THEN "move" ELSE "js")
     ELSE IF language \in {"javascript", "js", "typescript", "ts"} THEN
       IF Has("deploy") \/ Has("deployment") THEN
         IF Has("mainnet") THEN "scripts/deployment/mainnet/deploy.js"
         ELSE IF Has("testnet") THEN "scripts/deployment/testnet/deploy.js"
         ELSE "scripts/deployment/deploy.js"
       ELSE IF Has("interact") \/ Has("interaction")
         THEN "scripts/interaction/interact.js"
       ELSE IF Has("config") \/ Has("setup") THEN "config/setup.js"
       ELSE "scripts/script_" \o n \o ".js"
     ELSE IF language \in {"markdown", "md"} THEN
       IF Has("readme") \/ Has("# ") THEN "README.md"
       ELSE IF Has("api") THEN "docs/api/API.md"
       ELSE IF Has("deploy") THEN "docs/deployment/DEPLOYMENT.md"
       ELSE "docs/documentation_" \o n \o ".md"
     ELSE "misc/file_" \o n \o "." \o (IF language = "" THEN "txt" ELSE language)

\* the blocks of the replies with the index forEach gives them, and each
\* classifier body as the first block, tagged "move", of a reply
BlockKeys ==
  UNION {{<<CodeBlocksOf[r][k].code, CodeBlocksOf[r][k].language, k - 1>> :
            k \in 1..Len(CodeBlocksOf[r])} : r \in Replies}
    \cup {<<c, "move", 0>> : c \in ClassifierBodies}

\* ProposedName tabulated over the blocks of the replies
ProposedNameOf ==
  [key \in BlockKeys |-> ProposedName(key[1], key[2], key[3])]

\* generateFileName(code, language, index) of a render that saw `snap`
GenerateFileName(snap, code, language, index) ==
  IF ProposedNameOf[<<code, language, index>>] = NoName THEN NoName
  ELSE GetUniqueFileName(snap, ProposedNameOf[<<code, language, index>>])

-----------------------------------------------------------------------------
(* Classification of a named file: organizeFileIntoDirectory *)

RECURSIVE CountOf(_, _, _)
\* (s.match(/c/g) || []).length from position `from`
CountOf(s, c, from) ==
  IF IndexOfFrom(s, c, from) = 0 THEN 0
  ELSE 1 + CountOf(s, c, IndexOfFrom(s, c, from) + 1)

\* organizeFileIntoDirectory(fileName, content, type)
OrganizeFileIntoDirectory(fileName, content) ==
  LET pathDepth == CountOf(fileName, "/", 1)
      lowerContent == ToLowerCase(content)
      lowerFileName == ToLowerCase(fileName)
      Has(kw) == Includes(lowerContent, kw)
      Named(kw) == Includes(lowerFileName, kw)
  IN IF pathDepth >= 2 THEN fileName
     ELSE IF EndsWith(fileName, ".move") \/ Has("module") \/ Has("struct") THEN
       IF Has("core") \/ Has("main") \/ Has("primary")
         THEN "contracts/core/" \o fileName
       ELSE IF Has("token") \/ Named("token") THEN
         IF Has("erc20") \/ Has("fungible") THEN "contracts/tokens/fungible/" \o fileName
         ELSE IF Has("nft") \/ Has("erc721") THEN "contracts/tokens/nft/" \o fileName
         ELSE "contracts/tokens/" \o fileName
       ELSE IF Has("defi") \/ Has("liquidity") \/ Has("pool") THEN
         IF Has("liquidity") THEN "contracts/defi/liquidity/" \o fileName
         ELSE IF Has("swap") \/ Has("exchange") THEN "contracts/defi/exchange/" \o fileName
         ELSE IF Has("lending") \/ Has("borrow") THEN "contracts/defi/lending/" \o fileName
         ELSE "contracts/defi/" \o fileName
       ELSE IF Has("governance") \/ Has("dao") \/ Has("voting")
         THEN "contracts/governance/" \o fileName
       ELSE IF Has("nft") \/ Named("nft") THEN
         IF Has("marketplace") THEN "contracts/nft/marketplace/" \o fileName
         ELSE IF Has("collection") THEN "contracts/nft/collections/" \o fileName
         ELSE "contracts/nft/" \o fileName
       ELSE IF Has("util") \/ Has("helper") \/ Has("library")
         THEN "contracts/utils/" \o fileName
       ELSE IF Has("access") \/ Has("role") \/ Has("permission")
         THEN "contracts/access/" \o fileName
       ELSE "contracts/core/" \o fileName
     ELSE IF EndsWith(fileName, ".js") \/ EndsWith(fileName, ".ts") THEN
       IF Has("deploy") \/ Named("deploy") THEN
         IF Has("mainnet") \/ Named("mainnet") THEN "scripts/deployment/mainnet/" \o fileName
         ELSE IF Has("testnet") \/ Named("testnet")
           THEN "scripts/deployment/testnet/" \o fileName
         ELSE "scripts/deployment/" \o fileName
       ELSE IF Has("test") \/ Named("test") THEN
         IF Has("integration") THEN "tests/integration/" \o fileName
         ELSE IF Has("unit") THEN "tests/unit/" \o fileName
         ELSE "tests/" \o fileName
       ELSE IF Has("interact") \/ Named("interact") THEN "scripts/interaction/" \o fileName
       ELSE IF Has("config") \/ Named("config") THEN "config/" \o fileName
       ELSE "scripts/" \o fileName
     ELSE IF EndsWith(fileName, ".json") THEN
       IF Named("package") THEN fileName
       ELSE IF Named("network") THEN "config/networks/" \o fileName
       ELSE "config/" \o fileName
     ELSE IF EndsWith(fileName, ".toml") THEN "config/" \o fileName
     ELSE IF EndsWith(fileName, ".md") THEN
       IF Named("readme") THEN fileName
       ELSE IF Named("api") THEN "docs/api/" \o fileName
       ELSE IF Named("deploy") THEN "docs/deployment/" \o fileName
       ELSE "docs/" \o fileName
     ELSE IF EndsWith(fileName, ".d.ts") THEN "types/" \o fileName
     ELSE "misc/" \o fileName

\* organizeFileIntoDirectory tabulated over the names and bodies it is given
OrganizedPathOf ==
  [n \in ClassifierNames, c \in ClassifierBodies |-> OrganizeFileIntoDirectory(n, c)]

\* a second pass over every path of the first: the names it is given are the
\* results of OrganizedPathOf
OrganizedAgainOf ==
  [n \in ClassifierNames, c \in ClassifierBodies |->
     OrganizeFileIntoDirectory(OrganizedPathOf[n, c], c)]

-----------------------------------------------------------------------------
(* Edit command detection: detectEditCommand *)

RECURSIVE SpaceRunEnd(_, _)
\* the first position at or after i that does not hold a \s character
SpaceRunEnd(s, i) ==
  IF i <= Len(s) /\ IsSpace(CharAt(s, i)) THEN SpaceRunEnd(s, i + 1) ELSE i

RECURSIVE NonSpaceRunEnd(_, _)
\* the first position at or after i that holds a \s character or is past the end
NonSpaceRunEnd(s, i) ==
  IF i <= Len(s) /\ ~IsSpace(CharAt(s, i)) THEN NonSpaceRunEnd(s, i + 1) ELSE i

RECURSIVE AfterWords(_, _, _)
\* the position after the words of `verb` (separated by \s+) matched
\* case-insensitively at position i of s; 0 if they do not match there
AfterWords(s, i, verb) ==
  IF verb = <<>> THEN i
  ELSE LET w == Head(verb)
           j == i + Len(w)
       IN IF ToLowerCase(Substring(s, i, j - 1)) # w THEN 0
          ELSE IF Len(verb) = 1 THEN j
          ELSE IF SpaceRunEnd(s, j) = j THEN 0
          ELSE AfterWords(s, SpaceRunEnd(s, j), Tail(verb))

\* the capture of /(?:verb)\s+([^\s]+)/i anchored at position i, "" if no match
CaptureAt(s, i, verb) ==
  LET j == AfterWords(s, i, verb)
      k == SpaceRunEnd(s, j)
  IN IF j = 0 \/ k = j \/ k > Len(s) THEN ""
     ELSE SubSeq(s, k, NonSpaceRunEnd(s, k) - 1)

RECURSIVE FirstVerbCapture(_, _, _)
\* the alternatives of one pattern tried in order at position i
FirstVerbCapture(s, i, verbs) ==
  IF verbs = <<>> THEN ""
  ELSE IF CaptureAt(s, i, Head(verbs)) # "" THEN CaptureAt(s, i, Head(verbs))
  ELSE FirstVerbCapture(s, i, Tail(verbs))

RECURSIVE PatternCapture(_, _, _)
\* message.match(pattern)[1]: the leftmost match of one pattern, "" if none
PatternCapture(s, i, verbs) ==
  IF i > Len(s) THEN ""
  ELSE IF FirstVerbCapture(s, i, verbs) # "" THEN FirstVerbCapture(s, i, verbs)
  ELSE PatternCapture(s, i + 1, verbs)

\* editPatterns, each verb a sequence of words
EditPatterns ==
  << << <<"edit">>, <<"modify">>, <<"update">>, <<"change">> >>,
     << <<"fix">>, <<"repair">>, <<"adjust">> >>,
     << <<"add", "to">>, <<"append", "to">>, <<"extend">> >>,
     << <<"refactor">>, <<"improve">>, <<"enhance">> >>,
     << <<"work", "on">>, <<"update">> >> >>

RECURSIVE FirstPatternCapture(_, _)
FirstPatternCapture(message, patterns) ==
  IF patterns = <<>> THEN ""
  ELSE IF PatternCapture(message, 1, Head(patterns)) # ""
  THEN PatternCapture(message, 1, Head(patterns))
  ELSE FirstPatternCapture(message, Tail(patterns))

\* a detector with one pattern holding every verb: the leftmost verb wins
DetectLeftmost(message) ==
  PatternCapture(message, 1,
                 << <<"edit">>, <<"modify">>, <<"update">>, <<"change">>,
                    <<"fix">>, <<"repair">>, <<"adjust">>, <<"add", "to">>,
                    <<"append", "to">>, <<"extend">>, <<"refactor">>,
                    <<"improve">>, <<"enhance">>, <<"work", "on">> >>)

\* detectEditCommand(message): the captured name, "" for null
DetectEditCommand(message) == FirstPatternCapture(message, EditPatterns)

-----------------------------------------------------------------------------
(* The functions of the inputs, tabulated *)

\* what detectEditCommand returns for each message
EditCommandOf == [m \in Messages \cup ProbeMessages |-> DetectEditCommand(m)]

\* message.match(pattern)?.[1] for each message and each of editPatterns
PatternCapturesOf ==
  [m \in Messages \cup ProbeMessages |->
     [k \in 1..Len(EditPatterns) |-> PatternCapture(m, 1, EditPatterns[k])]]

\* total_messages_allowed of a new wallet profile
\* the characters of the class [\w\-\.\/]
RefChars == WordSet \cup {"-", ".", "/"}

RECURSIVE RefRunEnd(_, _)
\* the first position at or after i that does not hold a character of the class
RefRunEnd(s, i) ==
  IF i <= Len(s) /\ CharAt(s, i) \in RefChars THEN RefRunEnd(s, i + 1) ELSE i

RECURSIVE RefsFrom(_, _)
\* the matches of /@[\w\-\.\/]+/g from position `from`, each without its @
RefsFrom(message, from) ==
  LET at == IndexOfFrom(message, "@", from)
      end == RefRunEnd(message, at + 1)
  IN IF at = 0 THEN <<>>
     ELSE IF end = at + 1 THEN RefsFrom(message, at + 1)
     ELSE <<SubSeq(message, at + 1, end - 1)>> \o RefsFrom(message, end)

\* detectFileReferences(message)
DetectFileReferences(message) == RefsFrom(message, 1)

\* what detectFileReferences returns for each message
FileReferencesOf ==
  [m \in Messages \cup ProbeMessages |-> DetectFileReferences(m)]

\* a filter that reports no reference
InvalidRefsNone(fs, refs) == <<>>

RECURSIVE InvalidRefs(_, _)
\* fileReferences.filter(ref => !findFileByName(ref))
InvalidRefs(fs, refs) ==
  IF refs = <<>> THEN <<>>
  ELSE IF FindFileByName(fs, Head(refs)) = 0
       THEN <<Head(refs)>> \o InvalidRefs(fs, Tail(refs))
       ELSE InvalidRefs(fs, Tail(refs))

TotalMessagesAllowed == 5

-----------------------------------------------------------------------------
(* Initial state: first visit, nothing stored, provider just mounted *)

NoTimers == [files |-> FALSE, selection |-> FALSE]

NotSaved == [valid |-> FALSE, files |-> <<>>, selected |-> ""]

FreshStore(nid) == StoreState(<<>>, NoId, NoProject, nid)

CurrentStore == StoreState(files, selectedFileId, currentProject, nextId)

Init ==
  /\ files = <<>>
  /\ selectedFileId = NoId
  /\ currentProject = NoProject
  /\ localStorage = EmptyStorage
  /\ timers = NoTimers
  /\ nextId = 1
  /\ ops = 0
  /\ activeView = "builder"
  /\ hasInteractedWithAI = FALSE
  /\ isSending = FALSE
  /\ messagesUsed = 0
  /\ inflight = <<>>
  /\ savedMem = NotSaved
  /\ lastOp = Op("init", "", NoId)

\* the provider's state after a callback, and the save effects of the
\* render that follows
SetStore(st) ==
  /\ files' = st.files
  /\ selectedFileId' = st.selectedFileId
  /\ currentProject' = st.currentProject
  /\ nextId' = st.nextId
  /\ timers' = RunSaveEffects(st.files, st.selectedFileId)

\* one more user-level operation
UserOp == ops < MaxOps /\ ops' = ops + 1

-----------------------------------------------------------------------------
(* Operations of the Store called from a current render *)

\* a consumer calls addFileFromAI(fileName, content)
CallAddFileFromAI(fileName, content) ==
  LET st == AddFileFromAI(files, CurrentStore, fileName, content)
  IN /\ UserOp
     /\ IF ValidateFileContent(content, fileName)
        THEN SetStore(st)
        ELSE UNCHANGED storeVars
     /\ lastOp' = Op("addFileFromAI",
                     AddOutcome(files, fileName, content), st.selectedFileId)
     /\ UNCHANGED <<localStorage, savedMem, chatVars, viewVars>>

\* the CodeEditor is rendered in the builder tab once a message was sent
EditorMounted == activeView = "builder" /\ hasInteractedWithAI

\* CodeEditor.handleDeleteFile(fileId) on a listed file
CallDeleteFile(fileId) ==
  /\ UserOp
  /\ EditorMounted
  /\ HasId(files, fileId)
  /\ SetStore(DeleteFile(files, CurrentStore, fileId))
  /\ lastOp' = Op("deleteFile",
                  IF fileId = selectedFileId THEN "selected" ELSE "other",
                  fileId)
  /\ UNCHANGED <<localStorage, savedMem, chatVars, viewVars>>

\* CodeEditor: click on a listed file, setSelectedFileId(file.id)
SelectFile(fileId) ==
  /\ UserOp
  /\ EditorMounted
  /\ HasId(files, fileId)
  /\ fileId # selectedFileId
  /\ SetStore([CurrentStore EXCEPT !.selectedFileId = fileId])
  /\ lastOp' = Op("selectFile", "", fileId)
  /\ UNCHANGED <<localStorage, savedMem, chatVars, viewVars>>

\* CodeEditor: typing in the text area, updateFile(selectedFile.id, value)
EditorChange(content) ==
  /\ UserOp
  /\ EditorMounted
  /\ HasId(files, selectedFileId)
  /\ SetStore([CurrentStore EXCEPT
                 !.files = UpdateFile(files, selectedFileId, content)])
  /\ lastOp' = Op("updateFile", "", selectedFileId)
  /\ UNCHANGED <<localStorage, savedMem, chatVars, viewVars>>

\* createNewProject(name)
CallCreateNewProject ==
  /\ UserOp
  /\ localStorage' = RemoveProjectKeys(localStorage)
  /\ SetStore(StoreState(<<>>, NoId, SomeProject, nextId))
  /\ savedMem' = NotSaved
  /\ lastOp' = Op("createNewProject", "", NoId)
  /\ UNCHANGED <<chatVars, viewVars>>

\* loadProject(project)
CallLoadProject(projectFiles) ==
  /\ UserOp
  /\ SetStore(LoadProject(CurrentStore, projectFiles))
  /\ lastOp' = Op("loadProject", "", NoId)
  /\ UNCHANGED <<localStorage, savedMem, chatVars, viewVars>>

-----------------------------------------------------------------------------
(* Persistence steps *)

\* the timeout of a save effect elapses: saveProjectToStorage()
Save ==
  /\ localStorage' = SaveProjectToStorage(files, selectedFileId)
  /\ savedMem' = [valid |-> TRUE, files |-> files, selected |-> selectedFileId]
  /\ lastOp' = Op("save", "", NoId)
  /\ UNCHANGED <<files, selectedFileId, currentProject, nextId, ops,
                 chatVars, viewVars>>

\* the timeout of the effect on [files, saveProjectToStorage] fires
FilesTimerFires ==
  /\ timers.files
  /\ timers' = [timers EXCEPT !.files = FALSE]
  /\ Save

\* the timeout of the effect on [selectedFileId, files.length, saveProjectToStorage] fires
SelectionTimerFires ==
  /\ timers.selection
  /\ timers' = [timers EXCEPT !.selection = FALSE]
  /\ Save

\* page reload: every component mounts with its initial state, pending
\* timeouts and awaited calls are gone, and the provider's mount effect runs
\* loadProjectFromStorage()
Reload ==
  /\ UserOp
  /\ SetStore(LoadProjectFromStorage(localStorage, FreshStore(nextId)))
  /\ activeView' = "builder"
  /\ hasInteractedWithAI' = FALSE
  /\ isSending' = FALSE
  /\ inflight' = <<>>
  /\ lastOp' = Op("reload", "", NoId)
  /\ UNCHANGED <<localStorage, savedMem, messagesUsed>>

-----------------------------------------------------------------------------
(* The chat flow: Index and ChatInterface.handleSendMessage *)

\* an awaited model call: the files its handler's render saw, the edit
\* target, the references the "Some Referenced Files Not Found" toast
\* named (none when it was not raised), and whether the ChatInterface that
\* sent it is still mounted
Request(snap, editFileName, targetId, invalidRefs, mounted) ==
  [snap |-> snap, editFileName |-> editFileName, targetId |-> targetId,
   invalidRefs |-> invalidRefs, mounted |-> mounted]

\* every awaiting handler's ChatInterface is unmounted
Unmounted(reqs) == [i \in 1..Len(reqs) |-> [reqs[i] EXCEPT !.mounted = FALSE]]

\* Tabs onValueChange: the tab content is replaced, a ChatInterface mounts anew
SwitchView(view) ==
  /\ UserOp
  /\ view # activeView
  /\ activeView' = view
  /\ isSending' = FALSE
  /\ inflight' = Unmounted(inflight)
  /\ lastOp' = Op("switchView", "", NoId)
  /\ UNCHANGED <<storeVars, localStorage, savedMem, messagesUsed,
                 hasInteractedWithAI>>

\* canSendMessage
CanSendMessage == TotalMessagesAllowed - messagesUsed > 0

\* a handler that never takes the "File Not Found" return
TargetNeverMissing(editFileName, target) == FALSE

\* if (editFileName) { targetFile = findFileByName(editFileName); if (!targetFile) ...
TargetMissing(editFileName, target) == editFileName # "" /\ target = 0

\* a handler that does not look at isSending
SendRefusedWhenEmpty(message) == Trim(message) = "" \/ ~CanSendMessage

\* if (!inputValue.trim() || !canSendMessage || isSending) return;
SendRefused(message) == Trim(message) = "" \/ ~CanSendMessage \/ isSending

\* handleSendMessage up to the awaited model call
SendMessage(message) ==
  LET editFileName == EditCommandOf[message]
      target == FindFileByName(files, editFileName)
      \* the builder tab swaps its layout on the first interaction, which
      \* mounts another ChatInterface
      remount == activeView = "builder" /\ ~hasInteractedWithAI
  IN /\ UserOp
     /\ ~SendRefused(message)
     /\ IF TargetMissing(editFileName, target)
        THEN \* "File Not Found": setIsSending(false); return
             /\ lastOp' = Op("send", "file-not-found", NoId)
             /\ UNCHANGED <<chatVars, viewVars>>
        ELSE /\ hasInteractedWithAI' = TRUE
             /\ isSending' = ~remount
             /\ messagesUsed' = messagesUsed + 1
             /\ inflight' =
                  Append(IF remount THEN Unmounted(inflight) ELSE inflight,
                         Request(files, editFileName,
                                 IF editFileName # "" /\ target # 0
                                 THEN files[target].id ELSE NoId,
                                 InvalidRefs(files, FileReferencesOf[message]),
                                 ~remount))
             /\ lastOp' = Op("send", IF editFileName # "" THEN "edit" ELSE "create",
                             NoId)
             /\ UNCHANGED activeView
     /\ UNCHANGED <<storeVars, localStorage, savedMem>>

\* the requests left when the i-th one settles
Settled(reqs, i) == SubSeq(reqs, 1, i - 1) \o SubSeq(reqs, i + 1, Len(reqs))

RECURSIVE CreateFromBlocks(_, _, _, _)
\* the forEach over code blocks: block number k of `blocks` is named with
\* index k - 1 + offset and created unless a duplicate is detected
CreateFromBlocks(snap, st, blocks, index) ==
  IF blocks = <<>> THEN st
  ELSE LET block == Head(blocks)
           fileName == GenerateFileName(snap, block.code, block.language, index)
       IN CreateFromBlocks(
            snap,
            IF fileName # NoName /\ ~PreventDuplicateFiles(snap, fileName)
            THEN AddFileFromAI(snap, st, fileName, block.code)
            ELSE st,
            Tail(blocks), index + 1)

\* the Store after the code blocks of a reply were processed for request req
ProcessReply(req, st, codeBlocks) ==
  IF codeBlocks = <<>> THEN st
  ELSE IF req.editFileName # "" /\ req.targetId # NoId
  THEN CreateFromBlocks(
         req.snap,
         [st EXCEPT !.files = UpdateFile(st.files, req.targetId, codeBlocks[1].code)],
         Tail(codeBlocks), 1)
  ELSE CreateFromBlocks(req.snap, st, codeBlocks, 0)

RECURSIVE CountCreated(_, _, _)
\* createdFiles after the forEach over `blocks`: createdFiles++ follows each
\* call of addFileFromAI
CountCreated(snap, blocks, index) ==
  IF blocks = <<>> THEN 0
  ELSE LET block == Head(blocks)
           fileName == GenerateFileName(snap, block.code, block.language, index)
       IN (IF fileName # NoName /\ ~PreventDuplicateFiles(snap, fileName)
           THEN 1 ELSE 0)
          + CountCreated(snap, Tail(blocks), index + 1)

\* createdFiles of the operation summary for request req
CreatedFiles(req, codeBlocks) ==
  IF codeBlocks = <<>> THEN 0
  ELSE IF req.editFileName # "" /\ req.targetId # NoId
  THEN CountCreated(req.snap, Tail(codeBlocks), 1)
  ELSE CountCreated(req.snap, codeBlocks, 0)

\* a setter of the Store ran while the blocks were processed: updateFile
\* always calls setFiles, addFileFromAI returns before its setters when the
\* content is rejected
StoreWritten(req, st, codeBlocks) ==
  /\ codeBlocks # <<>>
  /\ \/ req.editFileName # "" /\ req.targetId # NoId
     \/ st # CurrentStore

\* some entry the handler's render saw is gone from the Store
DeletedInFlight(req) ==
  \E i \in 1..Len(req.snap) : ~HasId(files, req.snap[i].id)

\* a handler without a finally block
SendingKept(req, sending) == sending

\* finally { setIsSending(false) }: the setter of an unmounted ChatInterface
\* changes nothing on the page
SendingAfterFinally(req, sending) == IF req.mounted THEN FALSE ELSE sending

\* the model call of request i resolves with `response`
ReplyArrives(i, response) ==
  LET req == inflight[i]
      codeBlocks == CodeBlocksOf[response]
      st == ProcessReply(req, CurrentStore, codeBlocks)
  IN /\ i \in 1..Len(inflight)
     /\ inflight' = Settled(inflight, i)
     /\ UNCHANGED <<localStorage, savedMem, ops, messagesUsed, viewVars>>
     /\ IF StoreWritten(req, st, codeBlocks)
        THEN SetStore(st) ELSE UNCHANGED storeVars
     /\ isSending' = SendingAfterFinally(req, isSending)
     /\ lastOp' = Op("reply",
                     IF DeletedInFlight(req) THEN "after-delete"
                     ELSE IF req.invalidRefs # <<>> THEN "warned"
                     ELSE "in-order",
                     st.selectedFileId)

\* the model call of request i rejects, or returns an error
ModelCallFails(i) ==
  /\ i \in 1..Len(inflight)
  /\ inflight' = Settled(inflight, i)
  /\ isSending' = SendingAfterFinally(inflight[i], isSending)
  /\ lastOp' = Op("reply", "error", NoId)
  /\ UNCHANGED <<storeVars, localStorage, savedMem, ops, messagesUsed, viewVars>>

-----------------------------------------------------------------------------

Next ==
  \/ \E call \in CreateCalls : CallAddFileFromAI(call[1], call[2])
  \/ \E i \in 1..Len(files) : CallDeleteFile(files[i].id)
  \/ \E i \in 1..Len(files) : SelectFile(files[i].id)
  \/ \E c \in EditorContents : EditorChange(c)
  \/ CallCreateNewProject
  \/ \E p \in SavedProjects : CallLoadProject(p)
  \/ FilesTimerFires
  \/ SelectionTimerFires
  \/ Reload
  \/ \E v \in {"builder", "chat"} : SwitchView(v)
  \/ \E m \in Messages : SendMessage(m)
  \/ \E i \in 1..Len(inflight), r \in Replies : ReplyArrives(i, r)
  \/ \E i \in 1..Len(inflight) : ModelCallFails(i)

Spec == Init /\ [][Next]_vars

\* some awaited model call resolves or rejects
Settle ==
  \E i \in 1..Len(inflight) :
    \/ ModelCallFails(i)
    \/ \E r \in Replies : ReplyArrives(i, r)

\* the application when no model call is awaited for ever
LiveSpec == Spec /\ WF_vars(Settle)

-----------------------------------------------------------------------------
(* The provider's lookups and loaders called on their own.  The context     *)
(* value exports findFileByName, getUniqueFileName, deleteFile and the rest *)
(* (AICodeContext.tsx 876-896); here the Store starts from a file list and  *)
(* a localStorage that a project history or an earlier session left.        *)

\* paths of the entries the Store starts from
DrawnNames == {"a/Token.move", "b/token.move", "Token.move", "Token_v2.move"}

\* the id of the entry at position i of a drawn list
DrawnId(i) == "f" \o ToString(i)

\* a body with two import lines
BodyWithImports ==
  "use std::signer;\nuse std::vector;\nmodule a::t { struct T has key { v: u64 } }"

\* the content of a drawn entry
DrawnContent(name) == IF name = "Token.move" THEN BodyWithImports ELSE BodyA

\* file lists of up to MaxFiles entries over DrawnNames
DrawnFileLists ==
  UNION {{[i \in 1..n |-> File(DrawnId(i), names[i], DrawnContent(names[i]))] :
            names \in [1..n -> DrawnNames]} : n \in 0..MaxFiles}

\* a list an earlier session stored in the envelope, and one in the backup
StoredEnvelopeFiles == <<File("s1", "README.md", BodyA), File("s2", "Token.move", BodyB)>>
StoredBackupFiles == <<File("s3", "b/token.move", BodyA)>>

\* contents of localStorage an earlier session can have left
DrawnStorages ==
  {[project |-> p, selected |-> sel, backup |-> b] :
     p \in {AbsentFiles, Stored(<<>>), Stored(StoredEnvelopeFiles)},
     sel \in {Absent, Stored(""), Stored("s2"), Stored("s3")},
     b \in {AbsentFiles, Stored(StoredBackupFiles)}}

InitLookup ==
  /\ files \in DrawnFileLists
  /\ selectedFileId \in {NoId} \cup {files[i].id : i \in 1..Len(files)}
  /\ currentProject = NoProject
  /\ localStorage \in IF files = <<>> THEN DrawnStorages ELSE {EmptyStorage}
  /\ timers = NoTimers
  /\ nextId = 1
  /\ ops = 0
  /\ activeView = "builder"
  /\ hasInteractedWithAI = FALSE
  /\ isSending = FALSE
  /\ messagesUsed = 0
  /\ inflight = <<>>
  /\ savedMem = NotSaved
  /\ lastOp = Op("init", "", NoId)

\* the last step was a lookup or a message.  Neither changes anything in the
\* Store, so the state it was taken in already has every Store successor of
\* the state it leaves; the steps below are taken from states that are not
\* such copies.  A lost tab ends the run as well: the page it leaves is a
\* provider mounted on a stored project, which the initial states cover.
\* So does a plain updateFile: editFileByName ends in that call, and the
\* runs go on from there.
Asked ==
  lastOp.op \in {"findFileByName", "getUniqueFileName", "send",
                 "organizeFileIntoDirectory", "generateFileName",
                 "extractCodeFromResponse", "removeCodeBlocksFromText",
                 "interrupted", "updateFile"}

\* the provider was just constructed: its mount effect runs
\* loadProjectFromStorage()
Mount ==
  /\ lastOp.op = "init"
  /\ files = <<>>
  /\ SetStore(LoadProjectFromStorage(localStorage, CurrentStore))
  /\ lastOp' = Op("mount", "", NoId)
  /\ UNCHANGED <<localStorage, savedMem, ops, chatVars, viewVars>>

\* names asked of findFileByName
Queries ==
  { "Token.move", "token.move", "@a/Token.move", "oken", "x/token.md",
    "atokenmove", "Missing.move" }

\* a consumer calls findFileByName(fileName)
Find(fileName) ==
  /\ ~Asked
  /\ lastOp' = Op("findFileByName", fileName,
                  IF FindFileByName(files, fileName) = 0 THEN NoId
                  ELSE files[FindFileByName(files, fileName)].id)
  /\ UNCHANGED <<storeVars, localStorage, savedMem, ops, chatVars, viewVars>>

RECURSIVE SplitLines(_)
\* s.split('\n')
SplitLines(s) ==
  IF IndexOf(s, "\n") = 0 THEN <<s>>
  ELSE <<SubSeq(s, 1, IndexOf(s, "\n") - 1)>>
         \o SplitLines(SubSeq(s, IndexOf(s, "\n") + 1, Len(s)))

RECURSIVE JoinLines(_)
\* lines.join('\n')
JoinLines(lines) ==
  IF lines = <<>> THEN ""
  ELSE IF Len(lines) = 1 THEN lines[1]
  ELSE lines[1] \o "\n" \o JoinLines(Tail(lines))

\* the filter of mergeCodeIntelligently for imports / use statements
IsImportLine(line) ==
  \/ StartsWith(Trim(line), "use ")
  \/ StartsWith(Trim(line), "import ")
  \/ StartsWith(Trim(line), "const ") /\ Includes(line, "require(")

ImportLines(lines) == SelectSeq(lines, IsImportLine)

CodeLines(lines) == SelectSeq(lines, LAMBDA line : ~IsImportLine(line))

\* the new imports pushed onto allImports: those no existing import equals
\* after trim()
PushedImports(existingImports, newImports) ==
  SelectSeq(newImports,
            LAMBDA newImport :
              ~\E i \in 1..Len(existingImports) :
                  Trim(existingImports[i]) = Trim(newImport))

\* mergeCodeIntelligently(existing, newCode)
MergeCodeIntelligently(existing, newCode) ==
  LET existingLines == SplitLines(existing)
      newLines == SplitLines(newCode)
      allImports == ImportLines(existingLines)
                      \o PushedImports(ImportLines(existingLines),
                                       ImportLines(newLines))
  IN JoinLines(allImports) \o "\n\n" \o JoinLines(CodeLines(existingLines))
       \o "\n\n" \o JoinLines(CodeLines(newLines))

\* content.replace(/^\/\/ (add|append|prepend|merge):\s*/i, '') for a content
\* that starts with the directive
StripDirective(content, directive) ==
  TrimStart(SubSeq(content, Len(directive) + 1, Len(content)))

\* the directive editFileByName finds at the start of the content, "" if none
DirectiveOf(content) ==
  LET lowerContent == ToLowerCase(Substring(content, 1, 11))
  IN IF StartsWith(lowerContent, "// add:") THEN "// add:"
     ELSE IF StartsWith(lowerContent, "// append:") THEN "// append:"
     ELSE IF StartsWith(lowerContent, "// prepend:") THEN "// prepend:"
     ELSE IF StartsWith(lowerContent, "// merge:") THEN "// merge:"
     ELSE ""

\* finalContent of editFileByName for the found file's content
FinalContent(existing, content) ==
  LET directive == DirectiveOf(content)
      body == StripDirective(content, directive)
  IN IF directive \in {"// add:", "// append:"} THEN existing \o "\n\n" \o body
     ELSE IF directive = "// prepend:" THEN body \o "\n\n" \o existing
     ELSE IF directive = "// merge:" THEN MergeCodeIntelligently(existing, body)
     ELSE content

\* names handed to editFileByName
EditNames == {"Token.move", "Missing.move"}

\* what a call editFileByName(fileName, content) amounts to
EditOutcome(fileName, content) ==
  IF ~ValidateFileContent(content, fileName) THEN "rejected"
  ELSE IF FindFileByName(files, fileName) = 0 THEN "not-found"
  ELSE IF DirectiveOf(content) = "" THEN "replaced"
  ELSE DirectiveOf(content)

\* a consumer calls editFileByName(fileName, content)
EditFileByName(fileName, content) ==
  LET found == FindFileByName(files, fileName)
  IN /\ ~Asked
     /\ ops < MaxEdits
     /\ ops' = ops + 1
     /\ IF ValidateFileContent(content, fileName) /\ found # 0
        THEN SetStore([CurrentStore EXCEPT
               !.files = UpdateFile(files, files[found].id,
                                    FinalContent(files[found].content, content)),
               !.selectedFileId = files[found].id])
        ELSE UNCHANGED storeVars
     /\ lastOp' = Op("editFileByName", EditOutcome(fileName, content),
                     IF found = 0 THEN NoId ELSE files[found].id)
     /\ UNCHANGED <<localStorage, savedMem, chatVars, viewVars>>

\* an id no entry has
UnknownId == "f0"

\* a consumer calls deleteFile(fileId), with the id of an entry or not
Delete(fileId) ==
  /\ ~Asked
  /\ SetStore(DeleteFile(files, CurrentStore, fileId))
  /\ lastOp' = Op("deleteFile",
                  IF HasId(files, fileId) THEN "listed" ELSE "unknown", fileId)
  /\ UNCHANGED <<localStorage, savedMem, ops, chatVars, viewVars>>

\* contents handed to updateFile
UpdateContents == {BodyB, "short"}

\* a consumer calls updateFile(fileId, content) on the Store it was given,
\* with the id of an entry or not
Update(fileId, content) ==
  /\ lastOp.op = "init"
  /\ UNCHANGED ops
  /\ SetStore([CurrentStore EXCEPT !.files = UpdateFile(files, fileId, content)])
  /\ lastOp' = Op("updateFile",
                  IF HasId(files, fileId) THEN "listed" ELSE "unknown", fileId)
  /\ UNCHANGED <<localStorage, savedMem, chatVars, viewVars>>

\* paths proposed to getUniqueFileName
Proposals == {"Token.move", "token.move", "a/Token.move", "README.md", "Makefile"}

\* a consumer calls getUniqueFileName(fileName); the result is kept in `id`
Unique(fileName) ==
  /\ ~Asked
  /\ lastOp' = Op("getUniqueFileName", fileName, GetUniqueFileName(files, fileName))
  /\ UNCHANGED <<storeVars, localStorage, savedMem, ops, chatVars, viewVars>>

\* organizeFileIntoDirectory(fileName, content, type) is called; it reads
\* nothing of the Store (useCallback with no dependencies), so it is called in
\* the initial states only.  The result is kept in `id`.
Organize(fileName, content) ==
  /\ lastOp.op = "init"
  /\ lastOp' = Op("organizeFileIntoDirectory", fileName,
                  OrganizedPathOf[fileName, content])
  /\ UNCHANGED <<storeVars, localStorage, savedMem, ops, chatVars, viewVars>>

\* generateFileName(code, "move", 0) is called for the first block of a
\* reply; the result is kept in `id`
NameBlock(code) ==
  /\ lastOp.op = "init"
  /\ lastOp' = Op("generateFileName", ProposedNameOf[<<code, "move", 0>>],
                  GenerateFileName(files, code, "move", 0))
  /\ UNCHANGED <<storeVars, localStorage, savedMem, ops, chatVars, viewVars>>

\* extractCodeFromResponse(response) is called, on a fresh provider or right
\* after another extraction; the reply is kept in `id` and what the call
\* returns in `blocks`
Extract(response) ==
  /\ lastOp.op \in {"init", "extractCodeFromResponse"}
  /\ lastOp' = [Op("extractCodeFromResponse",
                   IF lastOp.op = "extractCodeFromResponse" /\ lastOp.id = response
                   THEN "again" ELSE "first",
                   response)
                  EXCEPT !.blocks = ExtractCodeFromResponse(response)]
  /\ UNCHANGED <<storeVars, localStorage, savedMem, ops, chatVars, viewVars>>

\* removeCodeBlocksFromText(text) is called on a reply; the clean text is
\* kept in `id`
Clean(response) ==
  /\ lastOp.op = "init"
  /\ lastOp' = Op("removeCodeBlocksFromText", response, CleanResponseOf[response])
  /\ UNCHANGED <<storeVars, localStorage, savedMem, ops, chatVars, viewVars>>

\* the tab of a mounted provider is lost in the middle of a storage
\* operation that left `ls`, and the page is opened again
Reopened(ls, what) ==
  /\ ~Asked
  /\ lastOp.op # "init"
  /\ localStorage' = ls
  /\ SetStore(LoadProjectFromStorage(ls, FreshStore(nextId)))
  /\ lastOp' = Op("interrupted", what, NoId)
  /\ UNCHANGED <<savedMem, ops, chatVars, viewVars>>

\* a save timeout fires and the tab is lost after k of the three setItem
\* calls of saveProjectToStorage
SaveInterrupted(k) ==
  /\ timers.files \/ timers.selection
  /\ Reopened(PartialSave(localStorage, files, selectedFileId, k), "save")

\* createNewProject is called and the tab is lost after k of its two
\* removeItem calls
WipeInterrupted(k) ==
  Reopened(PartialRemove(localStorage, k), "createNewProject")

\* the user sends a message in a chat that awaits no reply
FirstMessage(message) ==
  /\ ~Asked
  /\ inflight = <<>>
  /\ SendMessage(message)

NextLookup ==
  \/ Mount
  \/ \E m \in ProbeMessages : FirstMessage(m)
  \/ \E p \in Proposals : Unique(p)
  \/ \E id \in {files[i].id : i \in 1..Len(files)} \cup {UnknownId} : Delete(id)
  \/ \E n \in EditNames, c \in EditContents : EditFileByName(n, c)
  \/ \E id \in {files[i].id : i \in 1..Len(files)} \cup {UnknownId},
        c \in UpdateContents : Update(id, c)
  \/ \E q \in Queries : Find(q)
  \/ \E n \in ClassifierNames, c \in ClassifierBodies : Organize(n, c)
  \/ \E c \in ClassifierBodies : NameBlock(c)
  \/ \E r \in Replies \cup ProbeReplies : Extract(r)
  \/ \E r \in Replies \cup ProbeReplies : Clean(r)
  \/ \E k \in 0..2 : SaveInterrupted(k)
  \/ \E k \in 0..1 : WipeInterrupted(k)

LookupSpec == InitLookup /\ [][NextLookup]_vars

-----------------------------------------------------------------------------
(* Properties of the Store *)

\* C1: path uniqueness.  In every reachable state no two file entries have
\* case-insensitively equal paths.
C1_PathsUnique ==
  \A i, j \in 1..Len(files) :
     ToLowerCase(files[i].name) = ToLowerCase(files[j].name) => i = j

\* C2: create is idempotent-as-update.  When a reply's handler calls
\* addFileFromAI for two valid bodies with case-insensitively equal paths, one
\* after the other, exactly one entry is left at that path and it holds the
\* body of the later call.
C2_CreateTwiceIsUpdate ==
  [][\A i \in 1..Len(inflight), r \in Replies :
       (ReplyArrives(i, r) /\ inflight[i].editFileName = "") =>
         LET blocks == CodeBlocksOf[r]
             name(k) == GenerateFileName(inflight[i].snap, blocks[k].code,
                                         blocks[k].language, k - 1)
             called(k) == /\ name(k) # NoName
                          /\ ~PreventDuplicateFiles(inflight[i].snap, name(k))
                          /\ ValidateFileContent(blocks[k].code, name(k))
             same(m, k) == ToLowerCase(name(m)) = ToLowerCase(name(k))
         IN \A m, k \in 1..Len(blocks) :
              (m < k /\ called(m) /\ called(k) /\ same(m, k)
                 /\ \A n \in (k + 1)..Len(blocks) : ~(called(n) /\ same(k, n)))
              => LET at == {j \in 1..Len(files') :
                              ToLowerCase(files'[j].name) = ToLowerCase(name(k))}
                 IN /\ Cardinality(at) = 1
                    /\ \A j \in at : files'[j].content = blocks[k].code
    ]_vars

\* C3: re-creation through the reply flow is an update.  When a reply that is
\* not in edit mode carries only code blocks whose canonical path is the path
\* of an entry already in the Store, processing it leaves the number of entries
\* unchanged and each such entry holds the code of the last block for its path.
C3_RecreationUpdates ==
  [][\A i \in 1..Len(inflight), r \in Replies :
       (ReplyArrives(i, r) /\ inflight[i].editFileName = "") =>
         LET blocks == CodeBlocksOf[r]
             path(k) == ProposedNameOf[<<blocks[k].code, blocks[k].language, k - 1>>]
             at(k) == ExistingFile(files, path(k))
         IN (blocks # <<>> /\ \A k \in 1..Len(blocks) : path(k) # NoName /\ at(k) # 0)
            => /\ Len(files') = Len(files)
               /\ \A k \in 1..Len(blocks) :
                    (\A n \in (k + 1)..Len(blocks) : at(n) # at(k))
                    => files'[at(k)].content = blocks[k].code
    ]_vars

C5_ShortCreateIsNoOp ==
  [][\A call \in CreateCalls :
       (CallAddFileFromAI(call[1], call[2])
          /\ (call[2] = "" \/ Len(Trim(call[2])) < 50))
       => /\ files' = files
          /\ selectedFileId' = selectedFileId
    ]_vars

\* C5 witness: a create with an empty or too short body was rejected while
\* the Store held a selected entry
C5_Witness ==
  /\ lastOp.op = "addFileFromAI"
  /\ lastOp.outcome = "rejected-short"
  /\ Len(files) > 0
  /\ selectedFileId # NoId

\* C6: selection invariant.  The selected id is empty or the id of an entry
\* of the Store.
C6_SelectionValid ==
  selectedFileId = NoId \/ HasId(files, selectedFileId)

\* C6 witness: a reply was processed after the user deleted an entry the
\* handler's render had seen, and an entry is selected
C6_Witness ==
  /\ lastOp.op = "reply"
  /\ lastOp.outcome = "after-delete"
  /\ selectedFileId # NoId
  /\ HasId(files, selectedFileId)

\* C7: every successful mutation schedules a flush.  Once a create, content
\* update or delete happened and no save timeout is pending, a load from
\* storage restores the in-memory file list.
C7_FlushedWhenIdle ==
  ( /\ \/ lastOp.op \in {"deleteFile", "updateFile", "save"}
       \/ lastOp.op = "addFileFromAI" /\ lastOp.outcome \in {"created", "updated"}
    /\ timers = NoTimers )
  => LoadProjectFromStorage(localStorage, FreshStore(nextId)).files = files

\* C8: new project wipes persisted storage.  Right after createNewProject a
\* load from storage restores an empty file list.
C8_NewProjectWipesStorage ==
  lastOp.op = "createNewProject"
  => LoadProjectFromStorage(localStorage, FreshStore(nextId)).files = <<>>

\* C9 as stated: a load after a completed save, with no storage write in
\* between, restores the file list and the selected id the save saw.
C9_RoundTrip ==
  (lastOp.op = "reload" /\ savedMem.valid)
  => /\ files = savedMem.files
     /\ selectedFileId = savedMem.selected

\* C9: a load after a completed save, with no storage write in between,
\* restores the ordered file list the save saw; it restores the selected id
\* the save saw when that id is the id of a saved entry, and selects the first
\* saved entry when the saved selection was empty.
C9_RoundTripSelectsFirstWhenEmpty ==
  (lastOp.op = "reload" /\ savedMem.valid)
  => /\ files = savedMem.files
     /\ Len(files) > 0
     /\ selectedFileId =
          IF HasId(savedMem.files, savedMem.selected)
          THEN savedMem.selected ELSE files[1].id
     /\ (~HasId(savedMem.files, savedMem.selected) => savedMem.selected = "")

\* C9 witness: a save that saw an entry and an empty selection was loaded
\* back, and the first entry is selected
C9_Witness ==
  /\ lastOp.op = "reload"
  /\ savedMem.valid
  /\ savedMem.selected = ""
  /\ Len(files) > 0
  /\ selectedFileId = files[1].id

\* C10: debounce.  At no instant are two save timeouts pending.
C10_OneTimerPending ==
  ~(timers.files /\ timers.selection)

\* C11: load tries the keys in a fixed order.  When the envelope key is
\* present its files are the file list after the mount; the bare file list
\* is restored only when the envelope key is absent; when both are absent the
\* file list, the selection and the project stay as they were constructed.
C11_LoadKeyOrder ==
  [][Mount =>
       /\ localStorage.project.present => files' = localStorage.project.value
       /\ (~localStorage.project.present /\ localStorage.backup.present)
            => files' = localStorage.backup.value
       /\ (~localStorage.project.present /\ ~localStorage.backup.present)
            => /\ files' = <<>>
               /\ selectedFileId' = NoId
               /\ currentProject' = NoProject
    ]_vars

\* C11 witness: both keys were present with different lists and the mount
\* restored the envelope's
C11_Witness ==
  /\ lastOp.op = "mount"
  /\ localStorage.project.present
  /\ localStorage.backup.present
  /\ localStorage.project.value # localStorage.backup.value
  /\ files = localStorage.project.value
  /\ Len(files) > 0

\* C12: target-not-found aborts before the model call.  When a sent message
\* carries an edit command whose name findFileByName resolves to no entry, no
\* model call is started, the message quota is not incremented, the file list
\* and the selection are unchanged, and the chat is not sending.
C12_TargetNotFoundAborts ==
  [][\A m \in Messages :
       (lastOp'.op = "send"
          /\ EditCommandOf[m] # ""
          /\ FindFileByName(files, EditCommandOf[m]) = 0
          /\ SendMessage(m))
       => /\ inflight' = inflight
          /\ messagesUsed' = messagesUsed
          /\ files' = files
          /\ selectedFileId' = selectedFileId
          /\ isSending' = FALSE
    ]_vars

\* C12 witness: a message was aborted with "File Not Found" while the Store
\* held entries and an earlier model call was still awaited
C12_Witness ==
  /\ lastOp.op = "send"
  /\ lastOp.outcome = "file-not-found"
  /\ Len(files) > 0
  /\ Len(inflight) > 0

\* C13: findFileByName applies its strategies in the order exact path,
\* case-insensitive path, suffix, substring, base name, normalized name, and
\* returns an entry of the first strategy that has any match, undefined when
\* none has; with a/Token.move and b/token.move listed, in either order,
\* "Token.move" resolves to a/Token.move.
C13_FindPriority ==
  lastOp.op = "findFileByName" =>
    LET q == lastOp.outcome
        matching == {k \in 1..6 : StrategyHits(files, q, k) # {}}
    IN /\ IF matching = {} THEN lastOp.id = NoId
          ELSE \E k \in matching :
                 /\ \A l \in matching : k <= l
                 /\ \E i \in StrategyHits(files, q, k) : lastOp.id = files[i].id
       /\ ( /\ q = "Token.move"
            /\ {files[i].name : i \in 1..Len(files)} = {"a/Token.move", "b/token.move"} )
          => \E i \in 1..Len(files) :
               files[i].name = "a/Token.move" /\ lastOp.id = files[i].id

\* C13 witness: b/token.move is listed before a/Token.move and "Token.move"
\* resolved to the second entry
C13_Witness ==
  /\ lastOp.op = "findFileByName"
  /\ lastOp.outcome = "Token.move"
  /\ Len(files) = 2
  /\ files[1].name = "b/token.move"
  /\ files[2].name = "a/Token.move"
  /\ lastOp.id = files[2].id

\* C14: findFileByName is deterministic.  The entry returned is the earliest
\* in the list among those satisfying the first strategy that has any match,
\* whatever entries the later strategies would match.
C14_FindFirstInOrder ==
  lastOp.op = "findFileByName" =>
    \A k \in 1..6 :
      ( /\ StrategyHits(files, lastOp.outcome, k) # {}
        /\ \A l \in 1..(k - 1) : StrategyHits(files, lastOp.outcome, l) = {} )
      => \E i \in StrategyHits(files, lastOp.outcome, k) :
           /\ lastOp.id = files[i].id
           /\ \A j \in StrategyHits(files, lastOp.outcome, k) : i <= j

\* C14 witness: two entries satisfy the suffix strategy and a third query
\* strategy would match too; the first entry was returned
C14_Witness ==
  /\ lastOp.op = "findFileByName"
  /\ lastOp.outcome = "Token.move"
  /\ Len(files) = 2
  /\ files[1].name = "a/Token.move"
  /\ files[2].name = "a/Token.move"
  /\ lastOp.id = files[1].id

\* C15 as stated: getUniqueFileName("Token.move") returns "Token_2.move" when
\* Token.move is listed and Token_2.move is not, and "Token_3.move" when
\* Token_2.move is listed too.
C15_SuffixIsNumber ==
  (lastOp.op = "getUniqueFileName" /\ lastOp.outcome = "Token.move"
     /\ "token.move" \in ExistingNames(files))
  => lastOp.id = IF "token_2.move" \in ExistingNames(files)
                 THEN "Token_3.move" ELSE "Token_2.move"

\* C15: getUniqueFileName uses the suffix form name_vN.ext with N starting at
\* 2: for "Token.move" it returns "Token_v2.move" when Token.move is listed
\* and Token_v2.move is not, and "Token_v3.move" when Token_v2.move is listed
\* too and Token_v3.move is not (listed meaning case-insensitively equal).
C15_SuffixIsVersion ==
  (lastOp.op = "getUniqueFileName" /\ lastOp.outcome = "Token.move"
     /\ "token.move" \in ExistingNames(files))
  => IF "token_v2.move" \notin ExistingNames(files)
     THEN lastOp.id = "Token_v2.move"
     ELSE "token_v3.move" \notin ExistingNames(files)
            => lastOp.id = "Token_v3.move"

\* C15 witness: Token.move and Token_v2.move are listed and Token_v3.move
\* was returned
C15_Witness ==
  /\ lastOp.op = "getUniqueFileName"
  /\ lastOp.outcome = "Token.move"
  /\ {"token.move", "token_v2.move"} \subseteq ExistingNames(files)
  /\ lastOp.id = "Token_v3.move"

\* C16: getUniqueFileName returns a path that is not case-insensitively equal
\* to any listed path; a proposal that does not collide is returned unchanged,
\* and a disambiguated result keeps the directory prefix and the extension of
\* the proposal.
C16_UniqueResult ==
  lastOp.op = "getUniqueFileName" =>
    LET proposed == lastOp.outcome
        result == lastOp.id
        listed == {ToLowerCase(files[i].name) : i \in 1..Len(files)}
    IN /\ ToLowerCase(result) \notin listed
       /\ ToLowerCase(proposed) \notin listed => result = proposed
       /\ result # proposed =>
            /\ PathPrefix(result) = PathPrefix(proposed)
            /\ ExtensionOf(FileNamePart(result)) = ExtensionOf(FileNamePart(proposed))

\* C16 witness: a proposal in a directory collided and was disambiguated
\* inside that directory
C16_Witness ==
  /\ lastOp.op = "getUniqueFileName"
  /\ lastOp.outcome = "a/Token.move"
  /\ lastOp.id = "a/Token_v2.move"

\* C17: merge mode is line-granular and import-aware.  After editFileByName
\* with a "// merge:" content on a found entry, the import lines of the
\* entry's content are the distinct import lines of the old and the new body,
\* each exactly once, the old ones first, and its other non-blank lines are
\* the old body's followed by the new body's.
C17_MergeImportsOnce ==
  [][\A n \in EditNames, c \in EditContents :
       (EditFileByName(n, c)
          /\ DirectiveOf(c) = "// merge:"
          /\ ValidateFileContent(c, n)
          /\ FindFileByName(files, n) # 0)
       => LET at == FindFileByName(files, n)
              old == SplitLines(files[at].content)
              new == SplitLines(StripDirective(c, "// merge:"))
              merged == SplitLines(files'[at].content)
              imports == ImportLines(merged)
              NonBlank(lines) == SelectSeq(lines, LAMBDA line : Trim(line) # "")
              Trimmed(lines) == {Trim(lines[i]) : i \in 1..Len(lines)}
          IN /\ \A i, j \in 1..Len(imports) :
                  Trim(imports[i]) = Trim(imports[j]) => i = j
             /\ Trimmed(imports)
                  = Trimmed(ImportLines(old)) \cup Trimmed(ImportLines(new))
             /\ Len(imports) >= Len(ImportLines(old))
             /\ SubSeq(imports, 1, Len(ImportLines(old))) = ImportLines(old)
             /\ NonBlank(CodeLines(merged))
                  = NonBlank(CodeLines(old)) \o NonBlank(CodeLines(new))
    ]_vars

\* C18: replaceContent validates the content length.  When the code editor
\* hands updateFile a content that is empty or shorter than 50 characters
\* after trim(), the file list keeps its previous contents.
C18_ShortUpdateIsNoOp ==
  [][\A c \in EditorContents :
       (EditorChange(c) /\ (c = "" \/ Len(Trim(c)) < 50)) => files' = files
    ]_vars

\* C19: deleteFile(id) removes exactly the entry with that id.  The other
\* entries keep their id, path, content and order; the selection becomes
\* empty when the deleted entry was selected and is unchanged otherwise;
\* an id that no entry has changes nothing.
C19_DeleteFrame ==
  [][\A id \in {files[i].id : i \in 1..Len(files)} \cup {UnknownId} :
       Delete(id) =>
         /\ files' = SelectSeq(files, LAMBDA f : f.id # id)
         /\ Len(files') = Len(files) - (IF HasId(files, id) THEN 1 ELSE 0)
         /\ selectedFileId' = IF selectedFileId = id THEN NoId ELSE selectedFileId
         /\ ~HasId(files, id) => files' = files /\ selectedFileId' = selectedFileId
    ]_vars

\* C19 witness: the first of two entries was deleted while the second was
\* selected; the second is still listed and selected
C19_Witness ==
  /\ lastOp.op = "deleteFile"
  /\ lastOp.outcome = "listed"
  /\ lastOp.id = DrawnId(1)
  /\ Len(files) = 1
  /\ files[1].id = DrawnId(2)
  /\ selectedFileId = DrawnId(2)

\* C20 as stated: a message in which none of edit, modify, update, change,
\* fix, repair, adjust, extend, refactor is followed by a name never takes the
\* file-not-found abort: its model call is started.
C20_NineVerbs ==
  [][\A m \in ProbeMessages :
       (FirstMessage(m)
          /\ PatternCapture(m, 1,
               << <<"edit">>, <<"modify">>, <<"update">>, <<"change">>,
                  <<"fix">>, <<"repair">>, <<"adjust">>, <<"extend">>,
                  <<"refactor">> >>) = "")
       => /\ lastOp'.outcome # "file-not-found"
          /\ Len(inflight') = Len(inflight) + 1
          /\ inflight'[Len(inflight')].editFileName = ""
    ]_vars

\* C20: the verbs are those of editPatterns: edit, modify, update, change /
\* fix, repair, adjust / add to, append to, extend / refactor, improve,
\* enhance / work on, update, matched in any letter case.  A message in which none of them is followed
\* by a name starts its model call with no edit target; otherwise the
\* candidate name is the capture of the first of these five patterns, in
\* this order, that matches: the message aborts when findFileByName resolves
\* it to no entry and starts its model call with that target when it does.
C20_VerbPatterns ==
  [][\A m \in ProbeMessages :
       FirstMessage(m) =>
         LET capture(k) == PatternCapturesOf[m][k]
             matching == {k \in 1..Len(EditPatterns) : capture(k) # ""}
             started == /\ lastOp'.outcome # "file-not-found"
                        /\ Len(inflight') = Len(inflight) + 1
         IN IF matching = {}
            THEN started /\ inflight'[Len(inflight')].editFileName = ""
            ELSE \E k \in matching :
                   /\ \A l \in matching : k <= l
                   /\ IF FindFileByName(files, capture(k)) = 0
                      THEN lastOp'.outcome = "file-not-found" /\ inflight' = inflight
                      ELSE started
                           /\ inflight'[Len(inflight')].editFileName = capture(k)
    ]_vars

\* C20 witness: "fix Token.move after you edit b/token.move" was sent and the
\* model call was started with an edit target
C20_Witness ==
  /\ lastOp.op = "send"
  /\ lastOp.outcome = "edit"
  /\ Len(inflight) = 1
  /\ inflight[1].editFileName = "b/token.move"


\* C21: unresolved @references are not fatal.  The @tokens of a message are
\* extracted in order of appearance and resolved with findFileByName; when
\* some do not resolve and the edit target, if any, was found, the warning
\* names the unresolved ones in that order, the model call is started and the
\* quota is charged; when its reply arrives, the edit target that is still
\* listed holds the first block and the last block that passes naming,
\* duplicate detection and validation is in the Store.
C21_UnresolvedRefsProceed ==
  [][/\ \A m \in Messages :
          LET refs == FileReferencesOf[m]
              unresolved(ref) == FindFileByName(files, ref) = 0
          IN (/\ lastOp'.op = "send"
              /\ \E k \in 1..Len(refs) : unresolved(refs[k])
              /\ ~(EditCommandOf[m] # ""
                     /\ FindFileByName(files, EditCommandOf[m]) = 0)
              /\ SendMessage(m))
             => /\ \A k \in 1..Len(refs) : Includes(m, "@" \o refs[k])
                /\ \A k \in 1..(Len(refs) - 1) :
                     IndexOf(m, "@" \o refs[k]) < IndexOf(m, "@" \o refs[k + 1])
                /\ Len(inflight') = Len(inflight) + 1
                /\ inflight'[Len(inflight')].invalidRefs = SelectSeq(refs, unresolved)
                /\ messagesUsed' = messagesUsed + 1
     /\ \A i \in 1..Len(inflight), r \in Replies :
          (/\ lastOp'.op = "reply"
           /\ inflight[i].invalidRefs # <<>>
           /\ ReplyArrives(i, r)) =>
            LET req == inflight[i]
                blocks == CodeBlocksOf[r]
                edit == req.editFileName # "" /\ req.targetId # NoId
                first == IF edit THEN 2 ELSE 1
                name(k) == GenerateFileName(req.snap, blocks[k].code,
                                            blocks[k].language, k - 1)
                called(k) == /\ k >= first
                             /\ name(k) # NoName
                             /\ ~PreventDuplicateFiles(req.snap, name(k))
                             /\ ValidateFileContent(blocks[k].code, name(k))
            IN /\ (edit /\ blocks # <<>>) =>
                    \A j \in 1..Len(files) :
                       files[j].id = req.targetId
                       => \E h \in 1..Len(files') :
                             /\ files'[h].id = req.targetId
                             /\ files'[h].content = blocks[1].code
               /\ \A k \in 1..Len(blocks) :
                    (called(k) /\ \A n \in (k + 1)..Len(blocks) : ~called(n))
                    => \E h \in 1..Len(files') : files'[h].content = blocks[k].code
    ]_vars

\* C21 witness: the reply to a message whose references did not all resolve
\* was processed and its code is in the Store
C21_Witness ==
  /\ lastOp.op = "reply"
  /\ lastOp.outcome = "warned"
  /\ \E h \in 1..Len(files) : files[h].content \in {BodyA, BodyB}


\* C22: the classifier applies its contract rules in the precedence core,
\* token, DeFi, governance, NFT, access control, utility, default: a body with
\* governance and NFT keywords is placed under contracts/governance/ and one
\* with access-control and utility keywords under contracts/access/, by
\* organizeFileIntoDirectory for a one-segment .move name and by
\* generateFileName for a "move" block.
C22_ClassifierPrecedence ==
  [][/\ \A n \in ClassifierNames :
          (CountOf(n, "/", 1) = 0 /\ EndsWith(n, ".move")) =>
            /\ Organize(n, BodyGovNft) => lastOp'.id = "contracts/governance/" \o n
            /\ Organize(n, BodyAccessUtil) => lastOp'.id = "contracts/access/" \o n
            /\ Organize(n, BodyPlain) => lastOp'.id = "contracts/core/" \o n
     /\ NameBlock(BodyGovNft) => StartsWith(lastOp'.id, "contracts/governance/")
     /\ NameBlock(BodyAccessUtil) => StartsWith(lastOp'.id, "contracts/access/")
     /\ NameBlock(BodyPlain) => StartsWith(lastOp'.id, "contracts/core/")
    ]_vars


\* C23 as stated: a second message is accepted while the first message's
\* model call is awaited, that is, the handler's entry guard lets a message
\* through in every state with an awaited call.
C23_SecondMessageAccepted ==
  (Len(inflight) > 0 /\ CanSendMessage) =>
     \A m \in Messages : ~SendRefused(m)

\* C23: an awaited model call is never cancelled: it leaves the awaited set
\* only when it resolves or rejects, or when the page is reloaded.  While the
\* mounted chat is sending, a further message starts no call; after the chat
\* was mounted anew (first interaction in the builder tab, tab switch) a
\* message is accepted next to the calls still awaited.  Replies are applied
\* in the order in which they resolve, whatever the order of sending, each to
\* the Store the earlier ones left: no entry is removed or moved by a reply.
C23_NotCancelledSerializedBySending ==
  [][/\ Len(inflight') < Len(inflight) => lastOp'.op \in {"reply", "reload"}
     /\ isSending => Len(inflight') <= Len(inflight)
     /\ \A m \in Messages :
          (lastOp'.op = "send" /\ Len(inflight) > 0 /\ SendMessage(m)
             /\ lastOp'.outcome # "file-not-found")
          => /\ ~isSending
             /\ SubSeq(inflight', 1, Len(inflight)) = Unmounted(inflight)
                  \/ SubSeq(inflight', 1, Len(inflight)) = inflight
             /\ Len(inflight') = Len(inflight) + 1
     /\ lastOp'.op = "reply"
          => /\ Len(files') >= Len(files)
             /\ \A j \in 1..Len(files) :
                  files'[j].id = files[j].id /\ files'[j].name = files[j].name
             /\ \E i \in 1..Len(inflight) : inflight' = Settled(inflight, i)
    ]_vars

\* C23 witness: two calls were awaited at once; one of them has resolved
\* and the Store holds entries while the other, sent from a chat that saw an
\* empty Store and is no longer mounted, is still awaited
C23_Witness ==
  /\ lastOp.op = "reply"
  /\ Len(inflight) = 1
  /\ inflight[1].snap = <<>>
  /\ Len(files) > 0
  /\ ~inflight[1].mounted


C25_PartialWriteTolerated ==
  [][LET pre == LoadProjectFromStorage(localStorage, FreshStore(nextId)).files
     IN /\ \A k \in 0..2 :
             (lastOp'.op = "interrupted" /\ SaveInterrupted(k))
             => /\ files' \in {pre, files}
                /\ selectedFileId' = NoId \/ HasId(files', selectedFileId')
        /\ \A k \in 0..1 :
             (lastOp'.op = "interrupted" /\ WipeInterrupted(k))
             => /\ files' \in {pre, <<>>}
                /\ selectedFileId' = NoId \/ HasId(files', selectedFileId')
    ]_vars


\* C26: a name that already contains a path separator is returned unchanged
\* by organizeFileIntoDirectory, and organizing is idempotent: the path it
\* returned for a name and a body is returned unchanged when it is organized
\* again with that body.
C26_OrganizeIdempotent ==
  [][\A n \in ClassifierNames, c \in ClassifierBodies :
       (lastOp'.op = "organizeFileIntoDirectory" /\ lastOp.op = "init"
          /\ lastOp'.outcome = n /\ Organize(n, c))
       => /\ Includes(n, "/") => lastOp'.id = n
          /\ OrganizedAgainOf[n, c] = lastOp'.id
    ]_vars


\* C27: the fenced regions removed from the prose of a reply are exactly the
\* regions extractCodeFromResponse returns: every region that
\* removeCodeBlocksFromText removes is yielded once as a block, in order of
\* appearance, whatever its tag or length, and none of them is left in the
\* clean text.
C27_RemovedRegionsAreBlocks ==
  [][\A r \in Replies \cup ProbeReplies :
       /\ (lastOp'.op = "extractCodeFromResponse" /\ lastOp'.id = r /\ Extract(r))
            => lastOp'.blocks = RemovedRegionsOf[r]
       /\ (lastOp'.op = "removeCodeBlocksFromText" /\ lastOp'.outcome = r /\ Clean(r))
            => \A k \in 1..Len(RemovedRegionsOf[r]) :
                 ~Includes(lastOp'.id, Fence \o RemovedRegionsOf[r][k].code)
    ]_vars


\* C28: updateFile(id, content) changes only the content of the entry whose
\* id matches.  That entry keeps its id and path, the number and order of
\* entries, every other entry and the selection are unchanged; with an id
\* that no entry has, the file list is unchanged and no entry is created.
C28_UpdateFrame ==
  [][\A id \in {files[i].id : i \in 1..Len(files)} \cup {UnknownId},
        c \in UpdateContents :
       (lastOp'.op = "updateFile" /\ lastOp'.id = id /\ Update(id, c))
       => /\ Len(files') = Len(files)
          /\ \A j \in 1..Len(files) :
               /\ files'[j].id = files[j].id
               /\ files'[j].name = files[j].name
               /\ files'[j].content = IF files[j].id = id THEN c ELSE files[j].content
          /\ selectedFileId' = selectedFileId
          /\ ~HasId(files, id) => files' = files
    ]_vars

\* C28 witness: updateFile was called with an id of no entry while the Store
\* held entries
C28_Witness ==
  /\ lastOp.op = "updateFile"
  /\ lastOp.outcome = "unknown"
  /\ Len(files) > 1

\* C29: after a model round-trip the createdFiles of the operation summary
\* equals the number of entries appended to the Store while the reply was
\* processed; a block rejected by content validation is not counted
C29_SummaryAccurate ==
  [][\A i \in 1..Len(inflight), r \in Replies :
       (lastOp'.op = "reply" /\ ReplyArrives(i, r))
         => CreatedFiles(inflight[i], CodeBlocksOf[r]) = Len(files') - Len(files)]_vars

\* C30: every accepted send returns the chat to the idle state: at any time
\* the chat is idle then or later, so it never stays in the sending state,
\* given that awaited model calls resolve or reject
C30_SendReturnsToIdle == []<>(~isSending)

\* a send was accepted and its ChatInterface awaits the model call
C30_Witness ==
  /\ lastOp.op = "send"
  /\ isSending
  /\ \E i \in 1..Len(inflight) : inflight[i].mounted

=============================================================================
